---- MODULE Spec2Model ----
(***************************************************************************)
(* A model of the traversal engines of TS-Collections (GraphNode.ts,       *)
(* TreeNode.ts) and of the containers they are built on (Collections.ts,   *)
(* LinkedList.ts).  One action is one call of an iterator's next().        *)
(***************************************************************************)
EXTENDS Integers, Sequences, FiniteSets, TLC

VARIABLES kind, traversalRoot, children, left, right, iter, results

vars == <<kind, traversalRoot, children, left, right, iter, results>>

(***************************************************************************)
(* Bounds of the model.                                                    *)
(***************************************************************************)
\* largest number of nodes of an enumerated tree
MaxNodes == 4
\* largest number of nodes of an enumerated binary tree
MaxBinNodes == 3
\* number of next() calls made after the first one that reported done
ExtraCalls == 2

\* largest number of nodes of an enumerated graph
MaxGraphNodes == 3

\* largest number of edges an enumerated graph has besides those of a spanning tree
MaxExtraEdges == 1

\* largest cost the enumerated cost functions give an edge
MaxCost == 1

\* number of next() calls made on a shortest-path iterator
MaxDijkstraCalls == 5

\* number of push and pop calls made on a heap
MaxHeapOps == 5

\* largest element pushed into a heap
MaxHeapKey == 2

\* number of calls made on a queue used on its own
MaxQueueOps == 5

\* largest item enqueued
MaxQueueItem == 1

\* number of calls made on a linked list
MaxListOps == 3

\* largest item added to a linked list
MaxListItem == 1

\* largest number of elements of a source iterable
MaxSourceLen == 3

\* largest element of a source iterable, and largest item pushed on a stack
MaxSourceItem == 1

\* number of calls made on a stack used on its own
MaxStackOps == 4

(***************************************************************************)
(* JavaScript values.  Nodes are the naturals; the two absent values are   *)
(* negative numbers so that they compare with nodes.                       *)
(***************************************************************************)
Null == -1
Undefined == -2
Absent == {Null, Undefined}

\* Number.MAX_VALUE, the initial maxDepth of the preorder iterator
MAX_VALUE == 2147483647

\* what getChildren() can return: a list, or null, or undefined
ListOf(s) == [kind |-> "list", items |-> s]
NullList == [kind |-> "null", items |-> <<>>]
UndefinedList == [kind |-> "undefined", items |-> <<>>]

(***************************************************************************)
(* Small sequence helpers.                                                 *)
(***************************************************************************)
Front(s) == SubSeq(s, 1, Len(s) - 1)
Last(s) == s[Len(s)]
Range(s) == {s[i] : i \in 1..Len(s)}

RECURSIVE SetToSortedSeq(_)
SetToSortedSeq(S) ==
    IF S = {} THEN <<>>
    ELSE LET m == CHOOSE x \in S : \A y \in S : x <= y
         IN <<m>> \o SetToSortedSeq(S \ {m})

\* F applied to the value of e, which is computed once
Let(e, F(_)) == CHOOSE y \in {F(x) : x \in {e}} : TRUE

\* Array.prototype.pop: removes the last element, a no-op on the empty array
ArrayPop(a) == IF a = <<>> THEN a ELSE Front(a)

(***************************************************************************)
(* Stack (Collections.ts): a linked list with a separate length counter.   *)
(* The top of the stack is the last element of items.                      *)
(***************************************************************************)
StackNew == [items |-> <<>>, length |-> 0]

StackPush(s, item) == [items |-> Append(s.items, item), length |-> s.length + 1]

StackPop(s) == [items |-> ArrayPop(s.items), length |-> s.length - 1]

StackPeek(s) == IF s.items = <<>> THEN Undefined ELSE Last(s.items)

StackClear(s) == [items |-> <<>>, length |-> 0]

StackReplaceTop(s, item) == [s EXCEPT !.items = Append(Front(s.items), item)]

(***************************************************************************)
(* The expansion function (node) => node?.getChildren() of TreeNode, with  *)
(* the call counter of the test nodes.                                     *)
(***************************************************************************)
GetChildren(node) == children[node]

CountCall(calls, node) == [calls EXCEPT ![node] = @ + 1]

\* a JavaScript value is truthy unless it is null or undefined (a list,
\* even an empty one, is truthy)
IsList(c) == c.kind = "list"

(***************************************************************************)
(* Iterators over the levels of the tree.  src = "root" is the iterator of *)
(* the one-element array [traversalRoot]; src = "kids" is the iterator of  *)
(* the array getConnections(of) returned, read lazily at position idx;     *)
(* filt says whether it is wrapped in the circular-reference filter.       *)
(***************************************************************************)
RootIterator == [src |-> "root", of |-> Undefined, idx |-> 0, filt |-> FALSE]

KidsIterator(node, filtered) == [src |-> "kids", of |-> node, idx |-> 0, filt |-> filtered]

IterItems(it) == IF it.src = "root" THEN <<traversalRoot>> ELSE GetChildren(it.of).items

\* next() of an array iterator
ArrayIteratorNext(it) ==
    IF it.idx < Len(IterItems(it))
    THEN [done |-> FALSE, value |-> IterItems(it)[it.idx + 1], it |-> [it EXCEPT !.idx = @ + 1]]
    ELSE [done |-> TRUE, value |-> Undefined, it |-> it]

\* the predicate the depth-first engine hands to filter(): a connection passes
\* when it is not in the visited set; a connection that does not pass is added
\* a variant that adds the connection to the visited set before it looks it up
FilterPredicateDFSMarksFirst(visited, connection) ==
    [result |-> connection \notin (visited \cup {connection}),
     visited |-> visited \cup {connection}]

FilterPredicateDFS(visited, connection) ==
    LET result == connection \notin visited
    IN [result |-> result,
        visited |-> IF ~result THEN visited \cup {connection} ELSE visited]

\* FilteredIterator.next: pull from the source until the predicate accepts
RECURSIVE FilteredIteratorNext(_, _)
FilteredIteratorNext(it, visited) ==
    Let(ArrayIteratorNext(it), LAMBDA r :
        IF r.done THEN [done |-> TRUE, value |-> Undefined, it |-> r.it, visited |-> visited]
        ELSE Let(FilterPredicateDFS(visited, r.value), LAMBDA p :
                 IF p.result
                 THEN [done |-> FALSE, value |-> r.value, it |-> r.it, visited |-> p.visited]
                 ELSE FilteredIteratorNext(r.it, p.visited)))

IteratorNext(it, visited) ==
    IF it.filt THEN FilteredIteratorNext(it, visited)
    ELSE LET r == ArrayIteratorNext(it)
         IN [done |-> r.done, value |-> r.value, it |-> r.it, visited |-> visited]

(***************************************************************************)
(* DepthFirstIterator: the state shared by preorder and postorder.         *)
(*   ancestors is the identity of the _ancestors array; heap maps an array *)
(*   identity to the array's current content, so that a NodeWithMetadata   *)
(*   holding the array sees what the engine later does to it.              *)
(*   calls counts the expansion calls per node.                            *)
(***************************************************************************)
DepthFirstIteratorNew(nodes, check) ==
    [finished |-> FALSE,
     traversalStack |-> StackNew,
     ancestors |-> 1,
     heap |-> <<(<<>>)>>,
     currentNodes |-> StackNew,
     visitedNodes |-> {},
     check |-> check,
     maxDepth |-> MAX_VALUE,
     calls |-> [n \in nodes \cup Absent |-> 0]]

Ancestors(d) == d.heap[d.ancestors]

\* a variant that puts the new ancestor in front
AncestorsPushFront(d, node) == [d EXCEPT !.heap[d.ancestors] = <<node>> \o @]

AncestorsPush(d, node) == [d EXCEPT !.heap[d.ancestors] = Append(@, node)]

AncestorsPop(d) == [d EXCEPT !.heap[d.ancestors] = ArrayPop(@)]

CurrentNode(d) == StackPeek(d.currentNodes)

\* reset(): every stack cleared, _ancestors replaced by a new empty array
Reset(d) ==
    [d EXCEPT !.finished = FALSE,
              !.traversalStack = StackClear(@),
              !.heap = Append(@, <<>>),
              !.ancestors = Len(d.heap) + 1,
              !.currentNodes = StackClear(@),
              !.visitedNodes = {}]

\* this.getConnections(node): the expansion function, wrapped in the
\* circular-reference filter when the engine checks for them
\* a variant that asks for the connections twice
GetConnectionsTwice(d, node) ==
    LET d1 == [d EXCEPT !.calls = CountCall(CountCall(@, node), node),
                        !.visitedNodes = IF d.check THEN @ \cup {node} ELSE @]
    IN [connections |-> GetChildren(node), d |-> d1]

GetConnections(d, node) ==
    LET d1 == [d EXCEPT !.calls = CountCall(@, node),
                        !.visitedNodes = IF d.check THEN @ \cup {node} ELSE @]
    IN [connections |-> GetChildren(node), d |-> d1]

\* a variant that asks for the connections of an absent entry too, and is
\* given none
TryToPushIteratorExpandsAbsent(d) ==
    IF d.traversalStack.length = 0
    THEN IF traversalRoot = Undefined
         THEN [ok |-> FALSE, d |-> d]
         ELSE [ok |-> TRUE, d |-> [d EXCEPT !.traversalStack = StackPush(@, RootIterator)]]
    ELSE LET currentNode == StackPeek(d.currentNodes)
         IN IF currentNode \in Absent
            THEN [ok |-> FALSE, d |-> [d EXCEPT !.calls = CountCall(@, currentNode)]]
            ELSE Let(GetConnections(d, currentNode), LAMBDA g :
                     IF ~IsList(g.connections)
                     THEN [ok |-> FALSE, d |-> g.d]
                     ELSE [ok |-> TRUE,
                           d |-> [g.d EXCEPT !.traversalStack =
                                      StackPush(@, KidsIterator(currentNode, d.check))]])

TryToPushIterator(d) ==
    IF d.traversalStack.length = 0
    THEN IF traversalRoot = Undefined
         THEN [ok |-> FALSE, d |-> d]
         ELSE [ok |-> TRUE, d |-> [d EXCEPT !.traversalStack = StackPush(@, RootIterator)]]
    ELSE LET currentNode == StackPeek(d.currentNodes)
         IN IF currentNode \in Absent
            THEN [ok |-> FALSE, d |-> d]
            ELSE Let(GetConnections(d, currentNode), LAMBDA g :
                     IF ~IsList(g.connections)
                     THEN [ok |-> FALSE, d |-> g.d]
                     ELSE [ok |-> TRUE,
                           d |-> [g.d EXCEPT !.traversalStack =
                                      StackPush(@, KidsIterator(currentNode, d.check))]])

\* a variant whose exhausted-check asks for the connections of the current
\* node once more when the top iterator is exhausted
TopIteratorIsEmptyExpands(d) ==
    IF d.traversalStack.length < 1
    THEN [empty |-> FALSE, d |-> d]
    ELSE Let(IteratorNext(StackPeek(d.traversalStack), d.visitedNodes), LAMBDA r :
             LET d1 == [d EXCEPT !.traversalStack = StackReplaceTop(@, r.it),
                                 !.visitedNodes = r.visited]
             IN IF r.done
                THEN [empty |-> TRUE,
                      d |-> IF CurrentNode(d1) \in DOMAIN d1.calls
                            THEN [d1 EXCEPT !.calls = CountCall(@, CurrentNode(d1))]
                            ELSE d1]
                ELSE LET d2 == IF d1.currentNodes.length = d1.traversalStack.length
                               THEN AncestorsPop([d1 EXCEPT !.currentNodes = StackPop(@)])
                               ELSE d1
                         top == StackPeek(d2.currentNodes)
                         d3 == IF top # Undefined THEN AncestorsPush(d2, top) ELSE d2
                     IN [empty |-> FALSE,
                         d |-> [d3 EXCEPT !.currentNodes = StackPush(@, r.value)]])

TopIteratorIsEmpty(d) ==
    IF d.traversalStack.length < 1
    THEN [empty |-> FALSE, d |-> d]
    ELSE Let(IteratorNext(StackPeek(d.traversalStack), d.visitedNodes), LAMBDA r :
             LET d1 == [d EXCEPT !.traversalStack = StackReplaceTop(@, r.it),
                                 !.visitedNodes = r.visited]
             IN IF r.done
                THEN [empty |-> TRUE, d |-> d1]
                ELSE LET d2 == IF d1.currentNodes.length = d1.traversalStack.length
                               THEN AncestorsPop([d1 EXCEPT !.currentNodes = StackPop(@)])
                               ELSE d1
                         top == StackPeek(d2.currentNodes)
                         d3 == IF top # Undefined THEN AncestorsPush(d2, top) ELSE d2
                     IN [empty |-> FALSE,
                         d |-> [d3 EXCEPT !.currentNodes = StackPush(@, r.value)]])

PopTopIterator(d) ==
    LET d1 == IF d.currentNodes.length = d.traversalStack.length
              THEN AncestorsPop([d EXCEPT !.currentNodes = StackPop(@)])
              ELSE d
    IN [d1 EXCEPT !.traversalStack = StackPop(@)]

\* a variant: an "if" in place of the "while", one exhausted level popped at most
PopEmptyIteratorsOnce(d) ==
    Let(TopIteratorIsEmpty(d), LAMBDA t : IF t.empty THEN PopTopIterator(t.d) ELSE t.d)

RECURSIVE PopEmptyIteratorsUntilWeMove(_)
PopEmptyIteratorsUntilWeMove(d) ==
    Let(TopIteratorIsEmpty(d), LAMBDA t :
        IF t.empty
        THEN Let(PopTopIterator(t.d), LAMBDA popped : PopEmptyIteratorsUntilWeMove(popped))
        ELSE t.d)

StackIsEmpty(d) == d.traversalStack.length = 0

\* an IteratorResult: value is a NodeWithMetadata [node, ancestors], where
\* ancestors is the identity of the array the engine passed
DoneResult == [done |-> TRUE, node |-> Undefined, ancestors |-> 0]

NodeWithMetadata(node, anc) == [done |-> FALSE, node |-> node, ancestors |-> anc]

\* the getters of NodeWithMetadata, reading the array the instance holds
Depth(ancestorsArray) == Len(ancestorsArray)

Parent(ancestorsArray) ==
    IF Len(ancestorsArray) = 0 THEN Undefined ELSE ancestorsArray[Len(ancestorsArray)]

(***************************************************************************)
(* DepthFirstPreorderIterator.next                                         *)
(***************************************************************************)
\* a variant that still expands a node whose depth equals the bound
PreorderNextExpandsAtBound(d) ==
    LET d1 == IF (d.maxDepth = 0 /\ StackIsEmpty(d)) \/ Len(Ancestors(d)) <= d.maxDepth
              THEN TryToPushIterator(d).d
              ELSE d
    IN Let(PopEmptyIteratorsUntilWeMove(d1), LAMBDA d2 :
           LET d3 == IF StackIsEmpty(d2) THEN [d2 EXCEPT !.finished = TRUE] ELSE d2
           IN IF d3.finished
              THEN [res |-> DoneResult, d |-> d3]
              ELSE [res |-> NodeWithMetadata(CurrentNode(d3), d3.ancestors), d |-> d3])

\* a variant that does not remember having finished
PreorderNextForgetsFinished(d) ==
    LET d1 == IF (d.maxDepth = 0 /\ StackIsEmpty(d)) \/ Len(Ancestors(d)) < d.maxDepth
              THEN TryToPushIterator(d).d
              ELSE d
    IN Let(PopEmptyIteratorsUntilWeMove(d1), LAMBDA d2 :
           IF StackIsEmpty(d2)
           THEN [res |-> DoneResult, d |-> d2]
           ELSE [res |-> NodeWithMetadata(CurrentNode(d2), d2.ancestors), d |-> d2])

\* a variant that asks for the connections of a node already in the call
\* that yields it
PreorderNextExpandsYielded(d) ==
    LET d1 == IF (d.maxDepth = 0 /\ StackIsEmpty(d)) \/ Len(Ancestors(d)) < d.maxDepth
              THEN TryToPushIterator(d).d
              ELSE d
    IN Let(PopEmptyIteratorsUntilWeMove(d1), LAMBDA d2 :
           LET d3 == IF StackIsEmpty(d2) THEN [d2 EXCEPT !.finished = TRUE] ELSE d2
           IN IF d3.finished
              THEN [res |-> DoneResult, d |-> d3]
              ELSE [res |-> NodeWithMetadata(CurrentNode(d3), d3.ancestors),
                    d |-> IF CurrentNode(d3) \in Absent THEN d3
                          ELSE GetConnections(d3, CurrentNode(d3)).d])

PreorderNext(d) ==
    LET d1 == IF (d.maxDepth = 0 /\ StackIsEmpty(d)) \/ Len(Ancestors(d)) < d.maxDepth
              THEN TryToPushIterator(d).d
              ELSE d
    IN Let(PopEmptyIteratorsUntilWeMove(d1), LAMBDA d2 :
           LET d3 == IF StackIsEmpty(d2) THEN [d2 EXCEPT !.finished = TRUE] ELSE d2
           IN IF d3.finished
              THEN [res |-> DoneResult, d |-> d3]
              ELSE [res |-> NodeWithMetadata(CurrentNode(d3), d3.ancestors), d |-> d3])

(***************************************************************************)
(* DepthFirstPostorderIterator.next                                        *)
(***************************************************************************)
\* a variant: the root is not recognised as the last node
ReturnResultNeverFinished(d) ==
    [res |-> NodeWithMetadata(CurrentNode(d), d.ancestors), d |-> d]

GetAppropriateReturnResult(d) ==
    LET d1 == IF CurrentNode(d) = traversalRoot THEN [d EXCEPT !.finished = TRUE] ELSE d
    IN [res |-> NodeWithMetadata(CurrentNode(d1), d1.ancestors), d |-> d1]

RECURSIVE PostorderDescend(_)
PostorderDescend(d) ==
    Let(TryToPushIterator(d), LAMBDA p :
        IF ~p.ok THEN p.d
        ELSE Let(TopIteratorIsEmpty(p.d), LAMBDA t :
                 IF t.empty THEN PopTopIterator(t.d) ELSE PostorderDescend(t.d)))

\* a variant that asks for the connections of a node again when it comes
\* back to it after its children
PostorderNextExpandsOnReturn(d) ==
    IF d.finished THEN [res |-> DoneResult, d |-> d]
    ELSE Let(TopIteratorIsEmpty(d), LAMBDA t :
             IF t.empty
             THEN Let(PopTopIterator(t.d), LAMBDA popped :
                      GetAppropriateReturnResult(GetConnections(popped, CurrentNode(popped)).d))
             ELSE Let(PostorderDescend(t.d), LAMBDA down : GetAppropriateReturnResult(down)))

PostorderNext(d) ==
    IF d.finished THEN [res |-> DoneResult, d |-> d]
    ELSE Let(TopIteratorIsEmpty(d), LAMBDA t :
             IF t.empty
             THEN Let(PopTopIterator(t.d), LAMBDA popped : GetAppropriateReturnResult(popped))
             ELSE Let(PostorderDescend(t.d), LAMBDA down : GetAppropriateReturnResult(down)))

(***************************************************************************)
(* IterativeDeepeningBreadthFirstIterator                                  *)
(***************************************************************************)
IterativeDeepeningNew(nodes, check) ==
    [dfs |-> [DepthFirstIteratorNew(nodes, check) EXCEPT !.maxDepth = 0],
     currentDepth |-> 0,
     hasMoreNodes |-> TRUE,
     visitedNodes |-> {}]

\* a variant that leaves the depth-first engine's maxDepth alone
IncreaseDepthKeepsMaxDepth(s) ==
    [s EXCEPT !.currentDepth = @ + 1,
              !.dfs = Reset(s.dfs),
              !.hasMoreNodes = FALSE]

IncreaseDepth(s) ==
    [s EXCEPT !.currentDepth = @ + 1,
              !.dfs = Reset([s.dfs EXCEPT !.maxDepth = s.currentDepth + 1]),
              !.hasMoreNodes = FALSE]

\* the do ... while (true) loop of next()
RECURSIVE IterativeDeepeningLoop(_)
IterativeDeepeningLoop(s) ==
    Let(PreorderNext(s.dfs), LAMBDA r :
        LET s1 == [s EXCEPT !.dfs = r.d]
        IN IF r.res.done
           THEN IF ~s1.hasMoreNodes
                THEN [res |-> DoneResult, d |-> s1]
                ELSE IterativeDeepeningLoop(IncreaseDepth(s1))
           ELSE IF Depth(r.d.heap[r.res.ancestors]) < s1.currentDepth
                THEN IterativeDeepeningLoop(s1)
                ELSE IF r.res.node \in s1.visitedNodes
                     THEN IterativeDeepeningLoop(s1)
                     ELSE [res |-> r.res,
                           d |-> [s1 EXCEPT !.visitedNodes = @ \cup {r.res.node},
                                            !.hasMoreNodes = TRUE]])

IterativeDeepeningNext(s) ==
    IF s.hasMoreNodes THEN IterativeDeepeningLoop(s) ELSE [res |-> DoneResult, d |-> s]

(***************************************************************************)
(* Queue (LinkedList.ts); the front of the queue is the head of items.     *)
(***************************************************************************)
QueueNew == [items |-> <<>>, length |-> 0]

\* a variant that puts the new item at the front
QueueEnqueueFront(q, item) == [items |-> <<item>> \o q.items, length |-> q.length + 1]

QueueEnqueue(q, item) == [items |-> Append(q.items, item), length |-> q.length + 1]

QueueDequeue(q) ==
    IF q.items = <<>> THEN q ELSE [items |-> Tail(q.items), length |-> q.length - 1]

QueueHasFront(q) == q.items # <<>>

QueuePeek(q) == Head(q.items)

(***************************************************************************)
(* QueueBreadthFirstIterator.  A NodeWithBackPath is the sequence of the   *)
(* nodes on its parent chain: the node itself first, the root last.        *)
(***************************************************************************)
NodeWithBackPath(node, parent) == <<node>> \o parent

NoParent == <<>>

\* rootIter: yields NodeWithBackPath(traversalRoot, undefined) once
QueueRootIterator == [src |-> "root", of |-> Undefined, idx |-> 0, filt |-> FALSE, parent |-> NoParent]

\* the mapped (and, in graph mode, filtered) iterator over the children of a
\* yielded element, which wraps each child with that element as its parent
QueueKidsIterator(path, filtered) ==
    [src |-> "kids", of |-> Head(path), idx |-> 0, filt |-> filtered, parent |-> path]

\* the predicate the queue engine hands to filter(): child passes when it is
\* not in the visited set; when it passes, node (the parent) is added
\* a variant that lets every child through
FilterPredicateQueueAdmitsAll(visited, node, child) ==
    [result |-> TRUE, visited |-> visited \cup {node}]

FilterPredicateQueue(visited, node, child) ==
    LET result == child \notin visited
    IN [result |-> result,
        visited |-> IF result THEN visited \cup {node} ELSE visited]

RECURSIVE QueueFilteredNext(_, _)
QueueFilteredNext(it, visited) ==
    Let(ArrayIteratorNext(it), LAMBDA r :
        IF r.done THEN [done |-> TRUE, value |-> Undefined, it |-> r.it, visited |-> visited]
        ELSE Let(FilterPredicateQueue(visited, it.of, r.value), LAMBDA p :
                 IF p.result
                 THEN [done |-> FALSE, value |-> r.value, it |-> r.it, visited |-> p.visited]
                 ELSE QueueFilteredNext(r.it, p.visited)))

\* next() of an iterator of the traversal queue: value is a NodeWithBackPath
QueueIteratorNext(it, visited) ==
    Let(IF it.filt THEN QueueFilteredNext(it, visited)
        ELSE LET a == ArrayIteratorNext(it)
             IN [done |-> a.done, value |-> a.value, it |-> a.it, visited |-> visited],
        LAMBDA r :
            [done |-> r.done,
             value |-> IF r.done THEN NoParent ELSE NodeWithBackPath(r.value, it.parent),
             it |-> r.it,
             visited |-> r.visited])

\* a variant whose constructor asks for the connections of the root
QueueBreadthFirstNewExpandsRoot(nodes, check) ==
    [traversalQueue |-> QueueEnqueue(QueueNew, QueueRootIterator),
     visitedNodes |-> {},
     check |-> check,
     calls |-> [n \in nodes \cup Absent |-> IF n = traversalRoot THEN 1 ELSE 0]]

QueueBreadthFirstNew(nodes, check) ==
    [traversalQueue |-> QueueEnqueue(QueueNew, QueueRootIterator),
     visitedNodes |-> {},
     check |-> check,
     calls |-> [n \in nodes \cup Absent |-> 0]]

\* pull from the front iterator, dequeueing exhausted iterators
RECURSIVE QueuePull(_)
QueuePull(q) ==
    IF ~QueueHasFront(q.traversalQueue)
    THEN [done |-> TRUE, value |-> NoParent, q |-> q]
    ELSE Let(QueueIteratorNext(QueuePeek(q.traversalQueue), q.visitedNodes), LAMBDA r :
             Let([q EXCEPT !.traversalQueue.items = <<r.it>> \o Tail(@),
                           !.visitedNodes = r.visited], LAMBDA q1 :
                 IF r.done
                 THEN Let([q1 EXCEPT !.traversalQueue = QueueDequeue(@)],
                          LAMBDA dequeued : QueuePull(dequeued))
                 ELSE [done |-> FALSE, value |-> r.value, q |-> q1]))

PathResult(path) == [done |-> FALSE, node |-> Head(path), ancestors |-> 0, path |-> path]

\* a variant that asks for the connections once to test them and once more
\* to enqueue their iterator
QueueBreadthFirstNextExpandsTwice(q) ==
    Let(QueuePull(q), LAMBDA r :
        IF r.done THEN [res |-> DoneResult, d |-> r.q]
        ELSE LET node == Head(r.value)
                 q1 == [r.q EXCEPT !.visitedNodes = @ \cup {node}]
                 q2 == IF node \notin Absent
                       THEN [q1 EXCEPT !.calls = CountCall(@, node)]
                       ELSE q1
                 q3 == IF node \notin Absent /\ IsList(GetChildren(node))
                       THEN [q2 EXCEPT !.calls = CountCall(@, node),
                                       !.traversalQueue =
                                           QueueEnqueue(@, QueueKidsIterator(r.value, q.check))]
                       ELSE q2
             IN [res |-> PathResult(r.value), d |-> q3])

QueueBreadthFirstNext(q) ==
    Let(QueuePull(q), LAMBDA r :
        IF r.done THEN [res |-> DoneResult, d |-> r.q]
        ELSE LET node == Head(r.value)
                 q1 == [r.q EXCEPT !.visitedNodes = @ \cup {node}]
                 q2 == IF node \notin Absent
                       THEN [q1 EXCEPT !.calls = CountCall(@, node)]
                       ELSE q1
                 q3 == IF node \notin Absent /\ IsList(GetChildren(node))
                       THEN [q2 EXCEPT !.traversalQueue =
                                 QueueEnqueue(@, QueueKidsIterator(r.value, q.check))]
                       ELSE q2
             IN [res |-> PathResult(r.value), d |-> q3])

(***************************************************************************)
(* Heap and MinHeap (Heap.ts).  The heap is an array; index i of the       *)
(* source is position i + 1 of the sequence.                               *)
(***************************************************************************)
\* the comparer DjikstraIterator hands to its MinHeap
Comparer(a, b) == a.totalCost - b.totalCost

\* a variant with the strategy of MaxHeap
SinkStrategyOfMaxHeap(first, second) == Comparer(first, second) < 0

\* MinHeap._sinkStrategy
SinkStrategy(first, second) == Comparer(first, second) > 0

GetParentIndex(index) == (index - 1) \div 2

GetLeftChildIndex(index) == 2 * index + 1

GetRightChildIndex(index) == 2 * index + 2

RECURSIVE HeapifyUp(_, _)
HeapifyUp(heap, index) ==
    IF index = 0 THEN heap
    ELSE LET parentIndex == GetParentIndex(index)
             parentValue == heap[parentIndex + 1]
             currentValue == heap[index + 1]
         IN IF SinkStrategy(parentValue, currentValue)
            THEN HeapifyUp([heap EXCEPT ![index + 1] = parentValue,
                                        ![parentIndex + 1] = currentValue],
                           parentIndex)
            ELSE heap

RECURSIVE HeapifyDown(_, _)
HeapifyDown(heap, index) ==
    IF index >= Len(heap) THEN heap
    ELSE LET leftIndex == GetLeftChildIndex(index)
         IN IF leftIndex >= Len(heap) THEN heap
            ELSE LET rightIndex == GetRightChildIndex(index)
                     leftValue == heap[leftIndex + 1]
                     rightIsUndefined == rightIndex >= Len(heap)
                     mostExtremeChild ==
                         rightIsUndefined \/ SinkStrategy(heap[rightIndex + 1], leftValue)
                     minChild == IF mostExtremeChild THEN leftValue ELSE heap[rightIndex + 1]
                     childIndex == IF mostExtremeChild THEN leftIndex ELSE rightIndex
                 IN IF SinkStrategy(heap[index + 1], minChild)
                    THEN HeapifyDown([heap EXCEPT ![childIndex + 1] = heap[index + 1],
                                                  ![index + 1] = minChild],
                                     childIndex)
                    ELSE heap

HeapPush(heap, element) ==
    Let(Append(heap, element), LAMBDA h : HeapifyUp(h, Len(h) - 1))

\* pop(): on an empty array Array.pop() returns undefined.  Otherwise the
\* last element is removed and then stored at index 0: when it was the only
\* element the store puts it back into the emptied array.
HeapPop(heap) ==
    IF Len(heap) < 1
    THEN [defined |-> FALSE, value |-> <<>>, heap |-> heap]
    ELSE LET oldTop == heap[1]
             last == heap[Len(heap)]
             popped == Front(heap)
             stored == IF Len(popped) = 0 THEN <<last>> ELSE [popped EXCEPT ![1] = last]
         IN [defined |-> TRUE, value |-> oldTop, heap |-> HeapifyDown(stored, 0)]

(***************************************************************************)
(* DjikstraIterator (GraphNode.ts).  A heap node is                        *)
(* {totalCost, graphNodeWithBackPath}; the cost function is a function of  *)
(* the edge (from.node, to.node).                                          *)
(***************************************************************************)
DjikstraHeapNode(totalCost, path) ==
    [totalCost |-> totalCost, graphNodeWithBackPath |-> path]

DjikstraIteratorNew(root, nodes, costFunction) ==
    [costFunction |-> costFunction,
     traversalHeap |-> HeapPush(<<>>, DjikstraHeapNode(0, NodeWithBackPath(root, NoParent))),
     visitedNodes |-> {},
     check |-> TRUE,
     calls |-> [n \in nodes |-> 0],
     costCalls |-> 0,
     running |-> FALSE]

\* a variant that takes whatever the heap pops, whether its node has been
\* visited or not
DjikstraPopLoopKeepsVisited(heap, visitedNodes) ==
    Let(HeapPop(heap), LAMBDA p :
        [returns |-> TRUE, defined |-> p.defined, value |-> p.value, heap |-> p.heap])

\* let djikstraHeapNode = pop(); while (djikstraHeapNode && visited.has(its
\* node)) djikstraHeapNode = pop().  The loop changes nothing but the heap, so
\* when a pop that returned a visited node leaves the heap as it was, every
\* later iteration repeats it and the loop never ends: returns is FALSE.
RECURSIVE DjikstraPopLoop(_, _)
DjikstraPopLoop(heap, visitedNodes) ==
    Let(HeapPop(heap), LAMBDA p :
        IF p.defined /\ Head(p.value.graphNodeWithBackPath) \in visitedNodes
        THEN IF p.heap = heap
             THEN [returns |-> FALSE, defined |-> TRUE, value |-> p.value, heap |-> p.heap]
             ELSE DjikstraPopLoop(p.heap, visitedNodes)
        ELSE [returns |-> TRUE, defined |-> p.defined, value |-> p.value, heap |-> p.heap])

\* a variant that gives an adjacent node the total cost of the node it is
\* reached from, without the cost of the edge
RECURSIVE DjikstraPushAdjacentsIgnoresEdgeCost(_, _, _, _)
DjikstraPushAdjacentsIgnoresEdgeCost(heap, djikstraHeapNode, adjacentsToUse, costFunction) ==
    IF adjacentsToUse = <<>> THEN heap
    ELSE LET adjacent == Head(adjacentsToUse)
             currentNodeWithBackPath == djikstraHeapNode.graphNodeWithBackPath
         IN Let(HeapPush(heap,
                         DjikstraHeapNode(djikstraHeapNode.totalCost,
                                          NodeWithBackPath(adjacent, currentNodeWithBackPath))),
                LAMBDA h : DjikstraPushAdjacentsIgnoresEdgeCost(h, djikstraHeapNode,
                                                                Tail(adjacentsToUse), costFunction))

\* for (const adjacent of adjacentsToUse) traversalHeap.push({...})
RECURSIVE DjikstraPushAdjacents(_, _, _, _)
DjikstraPushAdjacents(heap, djikstraHeapNode, adjacentsToUse, costFunction) ==
    IF adjacentsToUse = <<>> THEN heap
    ELSE LET adjacent == Head(adjacentsToUse)
             currentNodeWithBackPath == djikstraHeapNode.graphNodeWithBackPath
             cost == costFunction[<<Head(currentNodeWithBackPath), adjacent>>]
         IN Let(HeapPush(heap,
                         DjikstraHeapNode(djikstraHeapNode.totalCost + cost,
                                          NodeWithBackPath(adjacent, currentNodeWithBackPath))),
                LAMBDA h : DjikstraPushAdjacents(h, djikstraHeapNode, Tail(adjacentsToUse),
                                                 costFunction))

\* next(); returns is FALSE when the call never returns
DjikstraNext(d) ==
    Let(DjikstraPopLoop(d.traversalHeap, d.visitedNodes), LAMBDA p :
        IF ~p.returns
        THEN [returns |-> FALSE, res |-> DoneResult,
              d |-> [d EXCEPT !.traversalHeap = p.heap, !.running = TRUE]]
        ELSE IF ~p.defined
        THEN [returns |-> TRUE, res |-> DoneResult, d |-> [d EXCEPT !.traversalHeap = p.heap]]
        ELSE LET node == Head(p.value.graphNodeWithBackPath)
                 visited == d.visitedNodes \cup {node}
                 adjacents == GetChildren(node)
                 adjacentsToUse == SelectSeq(adjacents.items, LAMBDA n : n \notin visited)
             IN [returns |-> TRUE,
                 res |-> PathResult(p.value.graphNodeWithBackPath),
                 d |-> IF node \in Absent
                       THEN [d EXCEPT !.traversalHeap = p.heap]
                       ELSE [d EXCEPT !.visitedNodes = visited,
                                      !.calls = CountCall(@, node),
                                      !.costCalls =
                                          IF IsList(adjacents)
                                          THEN @ + Len(adjacentsToUse) ELSE @,
                                      !.traversalHeap =
                                          IF IsList(adjacents)
                                          THEN DjikstraPushAdjacents(p.heap, p.value,
                                                   adjacentsToUse, d.costFunction)
                                          ELSE p.heap]])

(***************************************************************************)
(* AStarIterable (GraphNode.ts): the iterator is a DjikstraIterator whose  *)
(* cost function adds the heuristic to the cost.  The record keeps the     *)
(* two functions the iterable was made with.                               *)
(***************************************************************************)
\* a variant whose edge cost is the heuristic alone
AStarCostFunctionHeuristicOnly(costFunction, heuristicFunction) ==
    [e \in DOMAIN costFunction |-> heuristicFunction[e]]

AStarCostFunction(costFunction, heuristicFunction) ==
    [e \in DOMAIN costFunction |-> costFunction[e] + heuristicFunction[e]]

AStarIteratorNew(root, nodes, costFunction, heuristicFunction) ==
    Let(DjikstraIteratorNew(root, nodes, AStarCostFunction(costFunction, heuristicFunction)),
        LAMBDA d :
            [costFunction |-> d.costFunction,
             traversalHeap |-> d.traversalHeap,
             visitedNodes |-> d.visitedNodes,
             check |-> d.check,
             calls |-> d.calls,
             costCalls |-> d.costCalls,
             running |-> d.running,
             iterable |-> [costFunction |-> costFunction,
                           heuristicFunction |-> heuristicFunction]])

(***************************************************************************)
(* DepthFirstInOrderIterator (TreeNode.ts), over BinaryTreeNode.           *)
(***************************************************************************)
GetLeft(node) == left[node]

GetRight(node) == right[node]

Frame(node) == [node |-> node, hasGoneLeft |-> FALSE, hasGoneRight |-> FALSE]

InOrderNew(nodes) ==
    [traversalStack |-> StackPush(StackNew, Frame(traversalRoot)),
     ancestors |-> 1,
     heap |-> <<(<<>>)>>,
     leftCalls |-> [n \in nodes |-> 0],
     rightCalls |-> [n \in nodes |-> 0]]

TopFrame(s) == StackPeek(s.traversalStack)

HasTop(s) == s.traversalStack.items # <<>>

MoveLeft(s) ==
    LET current == TopFrame(s).node
        s1 == [s EXCEPT !.traversalStack =
                   StackReplaceTop(@, [TopFrame(s) EXCEPT !.hasGoneLeft = TRUE])]
        s2 == IF current \notin Absent
              THEN [s1 EXCEPT !.leftCalls = CountCall(@, current)]
              ELSE s1
        l == IF current \notin Absent THEN GetLeft(current) ELSE Undefined
    IN IF l \notin Absent
       THEN [moved |-> TRUE,
             s |-> [AncestorsPush(s2, current) EXCEPT !.traversalStack = StackPush(@, Frame(l))]]
       ELSE [moved |-> FALSE, s |-> s2]

\* a variant that calls getRight() once for the test and once more for the push
MoveRightAsksTwice(s) ==
    LET current == TopFrame(s).node
        s1 == [s EXCEPT !.traversalStack =
                   StackReplaceTop(@, [TopFrame(s) EXCEPT !.hasGoneRight = TRUE])]
        s2 == IF current \notin Absent
              THEN [s1 EXCEPT !.rightCalls = CountCall(@, current)]
              ELSE s1
        r == IF current \notin Absent THEN GetRight(current) ELSE Undefined
    IN IF r \notin Absent
       THEN [moved |-> TRUE,
             s |-> [AncestorsPush(s2, current) EXCEPT !.traversalStack = StackPush(@, Frame(r)),
                                                      !.rightCalls = CountCall(@, current)]]
       ELSE [moved |-> FALSE, s |-> s2]

MoveRight(s) ==
    LET current == TopFrame(s).node
        s1 == [s EXCEPT !.traversalStack =
                   StackReplaceTop(@, [TopFrame(s) EXCEPT !.hasGoneRight = TRUE])]
        s2 == IF current \notin Absent
              THEN [s1 EXCEPT !.rightCalls = CountCall(@, current)]
              ELSE s1
        r == IF current \notin Absent THEN GetRight(current) ELSE Undefined
    IN IF r \notin Absent
       THEN [moved |-> TRUE,
             s |-> [AncestorsPush(s2, current) EXCEPT !.traversalStack = StackPush(@, Frame(r))]]
       ELSE [moved |-> FALSE, s |-> s2]

\* while (!top.hasGoneLeft) { if (!this._moveLeft()) break; moved = true; }
RECURSIVE InOrderLeftLoop(_, _)
InOrderLeftLoop(s, moved) ==
    IF TopFrame(s).hasGoneLeft THEN [moved |-> moved, s |-> s]
    ELSE Let(MoveLeft(s), LAMBDA m :
             IF ~m.moved THEN [moved |-> moved, s |-> m.s]
             ELSE InOrderLeftLoop(m.s, TRUE))

\* while (top?.hasGoneLeft && top?.hasGoneRight) { pop; pop; moved = true; }
RECURSIVE InOrderPopLoop(_, _)
InOrderPopLoop(s, moved) ==
    IF HasTop(s) /\ TopFrame(s).hasGoneLeft /\ TopFrame(s).hasGoneRight
    THEN Let(AncestorsPop([s EXCEPT !.traversalStack = StackPop(@)]),
             LAMBDA popped : InOrderPopLoop(popped, TRUE))
    ELSE [moved |-> moved, s |-> s]

\* the outer while loop of next()
RECURSIVE InOrderLoop(_, _)
InOrderLoop(s, moved) ==
    IF ~(s.traversalStack.length > 0
         /\ (~TopFrame(s).hasGoneLeft \/ ~TopFrame(s).hasGoneRight))
    THEN [res |-> DoneResult, d |-> s]
    ELSE Let(InOrderLeftLoop(s, moved), LAMBDA a :
             IF a.moved /\ ~TopFrame(a.s).hasGoneRight
             THEN [res |-> NodeWithMetadata(TopFrame(a.s).node, a.s.ancestors), d |-> a.s]
             ELSE Let(IF ~TopFrame(a.s).hasGoneRight THEN MoveRight(a.s) ELSE a, LAMBDA b :
                      Let(IF ~b.moved THEN InOrderPopLoop(b.s, b.moved) ELSE b, LAMBDA c :
                          InOrderLoop(c.s, c.moved))))

InOrderNext(s) == InOrderLoop(s, FALSE)

(***************************************************************************)
(* The trees the traversals run on.  A tree of n nodes 0..n-1 is given by  *)
(* the parent of each node but the root 0, which has a smaller number; the *)
(* children of a node are listed in increasing order.  A leaf returns      *)
(* emptyChildrenVal from getChildren(), as in the test trees.              *)
(***************************************************************************)
(* NodeWithBackPath.ancestors: a linked-list walk over the parent          *)
(* pointers, .skip(1), .map(element => element.node).                      *)
(***************************************************************************)
\* LLNodeIterator: _first = the element, _current = undefined
LLNodeIteratorNew(first) == [first |-> first, current |-> NoParent]

\* LLNodeIterator.next with getNext = (element => element.parent)
LLNodeIteratorNext(it) ==
    IF it.current = NoParent
    THEN LET it1 == [first |-> NoParent, current |-> it.first]
         IN IF it1.current = NoParent
            THEN [done |-> TRUE, value |-> NoParent, it |-> it1]
            ELSE [done |-> FALSE, value |-> it1.current, it |-> it1]
    ELSE LET next == Tail(it.current)
         IN IF next = NoParent
            THEN [done |-> TRUE, value |-> NoParent, it |-> it]
            ELSE [done |-> FALSE, value |-> next, it |-> [it EXCEPT !.current = next]]

SkipIteratorNew(sourceIterator, numberToSkip) ==
    [source |-> sourceIterator, numberToSkip |-> numberToSkip, isFirstIteration |-> TRUE]

\* for (let i = 0; i <= numberToSkip; i++) { iterResult = source.next(); if (iterResult.done) break; }
RECURSIVE SkipLoop(_, _, _)
SkipLoop(iterResult, i, numberToSkip) ==
    IF i > numberToSkip THEN iterResult
    ELSE Let(LLNodeIteratorNext(iterResult.it), LAMBDA r :
             IF r.done THEN r ELSE SkipLoop(r, i + 1, numberToSkip))

SkipIteratorNext(sk) ==
    IF ~sk.isFirstIteration
    THEN Let(LLNodeIteratorNext(sk.source), LAMBDA r :
             [done |-> r.done, value |-> r.value, it |-> [sk EXCEPT !.source = r.it]])
    ELSE Let(SkipLoop([done |-> TRUE, value |-> NoParent, it |-> sk.source], 0, sk.numberToSkip),
             LAMBDA r :
                 [done |-> r.done, value |-> r.value,
                  it |-> [sk EXCEPT !.source = r.it, !.isFirstIteration = FALSE]])

\* MappedIterator.next with selector = (element => element.node)
MappedIteratorNext(m) ==
    Let(SkipIteratorNext(m.source), LAMBDA r :
        IF r.done
        THEN [done |-> TRUE, value |-> Undefined, it |-> [m EXCEPT !.source = r.it]]
        ELSE [done |-> FALSE, value |-> Head(r.value),
              it |-> [source |-> r.it, index |-> m.index + 1]])

\* a variant without the skip
BackPathAncestorsSkipNone(path) ==
    [source |-> SkipIteratorNew(LLNodeIteratorNew(path), 0), index |-> -1]

\* get ancestors(): the iterator a caller obtains from the getter
BackPathAncestors(path) ==
    [source |-> SkipIteratorNew(LLNodeIteratorNew(path), 1), index |-> -1]

\* the elements a caller reads from that iterator until it reports done
RECURSIVE IterateAncestors(_)
IterateAncestors(m) ==
    Let(MappedIteratorNext(m), LAMBDA r :
        IF r.done THEN <<>> ELSE <<r.value>> \o IterateAncestors(r.it))

\* get parent(): the parent element, absent for the root element
BackPathParent(path) == Tail(path)

(***************************************************************************)
ParentVectors(n) == {p \in [1..(n - 1) -> 0..(n - 1)] : \A i \in 1..(n - 1) : p[i] < i}

\* the 11-node tree of the tests: 0 -> 1,2; 1 -> 3,4; 2 -> 5,6; 6 -> 7 -> 8 -> 9 -> 10
ReferenceParents == <<0, 0, 1, 1, 2, 2, 6, 7, 8, 9>>

EmptyChildrenVals == {ListOf(<<>>), UndefinedList, NullList, ListOf(<<Null>>), ListOf(<<Undefined>>)}

KidsOf(p, v) == SetToSortedSeq({i \in DOMAIN p : p[i] = v})

TreeChildren(p, emptyChildrenVal) ==
    [v \in 0..Len(p) |-> IF KidsOf(p, v) = <<>> THEN emptyChildrenVal ELSE ListOf(KidsOf(p, v))]

TreeShapes == UNION {ParentVectors(n) : n \in 1..MaxNodes} \cup {ReferenceParents}

(***************************************************************************)
(* Binary trees: the parent vector, and for each node but the root whether *)
(* it is the left or the right child of its parent.  An absent child is    *)
(* null or undefined, one value for the whole tree as in the test trees.   *)
(***************************************************************************)
Sides(p) == {sd \in [DOMAIN p -> {"L", "R"}] :
                \A i, j \in DOMAIN p : (i # j /\ p[i] = p[j]) => sd[i] # sd[j]}

ReferenceSides == <<"L", "R", "L", "R", "L", "R", "L", "R", "L", "R">>

BinaryShapes ==
    {<<p, sd>> : p \in {ReferenceParents}, sd \in {ReferenceSides}}
    \cup UNION {{<<p, sd>> : sd \in Sides(p)} : p \in UNION {ParentVectors(n) : n \in 1..MaxBinNodes}}

ChildAt(p, sd, v, side, emptyValue) ==
    IF \E i \in DOMAIN p : p[i] = v /\ sd[i] = side
    THEN CHOOSE i \in DOMAIN p : p[i] = v /\ sd[i] = side
    ELSE emptyValue

\* BinaryTreeNode.getChildren: the children that are neither null nor undefined
BinaryGetChildren(l, r) == ListOf(SelectSeq(<<l, r>>, LAMBDA value : value \notin Absent))

(***************************************************************************)
(* The state machine: one traversal of one tree, next() called until it    *)
(* reports done and ExtraCalls more times.                                 *)
(***************************************************************************)
Nodes == DOMAIN children

Kinds == {"preorder", "postorder", "iterativeDeepening", "queue"}

NewIterator(k, nodes, checkForCircularReferences) ==
    CASE k = "preorder" -> DepthFirstIteratorNew(nodes, checkForCircularReferences)
      [] k = "postorder" -> DepthFirstIteratorNew(nodes, checkForCircularReferences)
      [] k = "iterativeDeepening" -> IterativeDeepeningNew(nodes, checkForCircularReferences)
      [] k = "queue" -> QueueBreadthFirstNew(nodes, checkForCircularReferences)
      [] k = "inorder" -> InOrderNew(nodes)

InitTree ==
    \E p \in TreeShapes, e \in EmptyChildrenVals, k \in Kinds :
        /\ kind = k
        /\ traversalRoot = 0
        /\ children = TreeChildren(p, e)
        /\ left = <<>>
        /\ right = <<>>
        /\ iter = NewIterator(k, 0..Len(p), FALSE)
        /\ results = <<>>

InitBinary ==
    \E b \in BinaryShapes, e \in Absent :
        LET p == b[1]
            sd == b[2]
            l == [v \in 0..Len(p) |-> ChildAt(p, sd, v, "L", e)]
            r == [v \in 0..Len(p) |-> ChildAt(p, sd, v, "R", e)]
        IN /\ kind = "inorder"
           /\ traversalRoot = 0
           /\ left = l
           /\ right = r
           /\ children = [v \in 0..Len(p) |-> BinaryGetChildren(l[v], r[v])]
           /\ iter = InOrderNew(0..Len(p))
           /\ results = <<>>

(***************************************************************************)
(* Graphs (GraphNode): a spanning tree of the nodes reachable from the     *)
(* root plus further edges (back, forward and cross edges, self-loops),   *)
(* which getAdjacentNodes lists before or after the tree edges.            *)
(***************************************************************************)
TreeEdges(p) == {<<p[i], i>> : i \in DOMAIN p}

ExtraEdgeSets(p) ==
    {es \in SUBSET (((0..Len(p)) \X (0..Len(p))) \ TreeEdges(p)) : Cardinality(es) <= MaxExtraEdges}

ExtrasOf(es, v) == SetToSortedSeq({e[2] : e \in {x \in es : x[1] = v}})

GraphAdjacents(p, es, extraFirst) ==
    [v \in 0..Len(p) |->
        ListOf(IF extraFirst THEN ExtrasOf(es, v) \o KidsOf(p, v) ELSE KidsOf(p, v) \o ExtrasOf(es, v))]

\* 0 -> 1, 2;  1 -> 2;  2 -> 3;  3 -> 4: node 2 is one hop from the root and is
\* met first at the end of the two-hop path through node 1
DetourGraph ==
    (0 :> ListOf(<<1, 2>>)) @@ (1 :> ListOf(<<2>>)) @@ (2 :> ListOf(<<3>>))
        @@ (3 :> ListOf(<<4>>)) @@ (4 :> ListOf(<<>>))

\* GraphNode.DFS / DFSPostorder / BFS / BFSFast: every traversal checks for
\* circular references
InitGraph ==
    \E p \in UNION {ParentVectors(n) : n \in 1..MaxGraphNodes}, k \in Kinds :
        \E es \in ExtraEdgeSets(p), extraFirst \in BOOLEAN, detour \in BOOLEAN :
            /\ kind = k
            /\ traversalRoot = 0
            /\ children = IF detour THEN DetourGraph ELSE GraphAdjacents(p, es, extraFirst)
            /\ left = <<>>
            /\ right = <<>>
            /\ iter = NewIterator(k, DOMAIN children, TRUE)
            /\ results = <<>>

\* a traversal whose root is null or undefined: the iterables are handed the
\* root as a value, and nothing can be expanded
InitAbsentRoot ==
    \E root \in Absent, k \in Kinds \cup {"inorder"}, check \in BOOLEAN :
        /\ kind = k
        /\ traversalRoot = root
        /\ children = <<>>
        /\ left = <<>>
        /\ right = <<>>
        /\ (k = "inorder" => ~check)
        /\ iter = NewIterator(k, {}, check)
        /\ results = <<>>

\* the edges of a graph
EdgesOf(adjacents) ==
    {e \in (DOMAIN adjacents) \X (DOMAIN adjacents) : e[2] \in Range(adjacents[e[1]].items)}

\* the graphs searched for shortest paths have a spanning tree and at most one
\* more edge
CostedExtraEdgeSets(p) ==
    {{}} \cup {{e} : e \in ((0..Len(p)) \X (0..Len(p))) \ TreeEdges(p)}

\* GraphNode.Djikstra(costFunction), with a cost of 0..MaxCost on every edge;
\* the root is a node of the graph, or null or undefined with nothing to expand
InitDjikstra ==
    \/ \E p \in UNION {ParentVectors(n) : n \in 1..MaxGraphNodes} :
           \E es \in CostedExtraEdgeSets(p), extraFirst \in BOOLEAN :
               \E costFunction \in [EdgesOf(GraphAdjacents(p, es, extraFirst)) -> 0..MaxCost] :
                   /\ kind = "dijkstra"
                   /\ traversalRoot = 0
                   /\ children = GraphAdjacents(p, es, extraFirst)
                   /\ left = <<>>
                   /\ right = <<>>
                   /\ iter = DjikstraIteratorNew(0, DOMAIN children, costFunction)
                   /\ results = <<>>
    \/ \E root \in Absent :
           /\ kind = "dijkstra"
           /\ traversalRoot = root
           /\ children = <<>>
           /\ left = <<>>
           /\ right = <<>>
           /\ iter = DjikstraIteratorNew(root, {}, <<>>)
           /\ results = <<>>

\* a heuristic that takes an edge into the goal for free and charges every
\* other edge more than any edge costs
HeuristicTowards(edges, goal) ==
    [e \in edges |-> IF e[2] = goal THEN 0 ELSE MaxCost + 1]

ZeroHeuristic(edges) == [e \in edges |-> 0]

\* GraphNode.AStar(costFunction, heuristicFunction), with a cost of 0..MaxCost
\* on every edge and a heuristic that is zero or leads towards one node
InitAStar ==
    \E p \in UNION {ParentVectors(n) : n \in 1..MaxGraphNodes} :
        \E es \in CostedExtraEdgeSets(p), extraFirst \in BOOLEAN :
            \E costFunction \in [EdgesOf(GraphAdjacents(p, es, extraFirst)) -> 0..MaxCost] :
                \E heuristicFunction \in
                        {ZeroHeuristic(DOMAIN costFunction)}
                            \cup {HeuristicTowards(DOMAIN costFunction, g) : g \in 0..Len(p)} :
                    /\ kind = "astar"
                    /\ traversalRoot = 0
                    /\ children = GraphAdjacents(p, es, extraFirst)
                    /\ left = <<>>
                    /\ right = <<>>
                    /\ iter = AStarIteratorNew(0, DOMAIN children, costFunction, heuristicFunction)
                    /\ results = <<>>

(***************************************************************************)
(* DepthFirstIterable and QueueBreadthFirstIterable: an iterable keeps the *)
(* root, the traversal type, the circular-reference flag and the expansion *)
(* function; [Symbol.iterator]() makes an iterator from them.  The caller  *)
(* holds references (handles) to the iterator objects it was given.        *)
(***************************************************************************)
TraversalTypes ==
    {"DepthFirstPreorder", "DepthFirstPostorder", "DepthFirstInOrder", "BreadthFirst"}

\* a variant whose default case hands out a preorder iterator
DepthFirstIterableIteratorDefaultsToPreorder(traversalType, nodes, check) ==
    CASE traversalType = "DepthFirstPostorder" ->
             [threw |-> FALSE, engine |-> "postorder",
              iterator |-> DepthFirstIteratorNew(nodes, check)]
      [] traversalType = "BreadthFirst" ->
             [threw |-> FALSE, engine |-> "iterativeDeepening",
              iterator |-> IterativeDeepeningNew(nodes, check)]
      [] OTHER ->
             [threw |-> FALSE, engine |-> "preorder",
              iterator |-> DepthFirstIteratorNew(nodes, check)]

\* DepthFirstIterable[Symbol.iterator]: throws for a traversal type that is
\* not one of the three cases
DepthFirstIterableIterator(traversalType, nodes, check) ==
    CASE traversalType = "DepthFirstPreorder" ->
             [threw |-> FALSE, engine |-> "preorder",
              iterator |-> DepthFirstIteratorNew(nodes, check)]
      [] traversalType = "DepthFirstPostorder" ->
             [threw |-> FALSE, engine |-> "postorder",
              iterator |-> DepthFirstIteratorNew(nodes, check)]
      [] traversalType = "BreadthFirst" ->
             [threw |-> FALSE, engine |-> "iterativeDeepening",
              iterator |-> IterativeDeepeningNew(nodes, check)]
      [] OTHER ->
             [threw |-> TRUE, engine |-> "none", iterator |-> <<>>]

\* QueueBreadthFirstIterable[Symbol.iterator]
QueueBreadthFirstIterableIterator(nodes, check) ==
    [threw |-> FALSE, engine |-> "queue", iterator |-> QueueBreadthFirstNew(nodes, check)]

SymbolIterator(iterable, nodes) ==
    IF iterable.class = "DepthFirstIterable"
    THEN DepthFirstIterableIterator(iterable.traversalType, nodes, iterable.check)
    ELSE QueueBreadthFirstIterableIterator(nodes, iterable.check)

Iterables ==
    {[class |-> "DepthFirstIterable", traversalType |-> t, check |-> c] :
         t \in TraversalTypes, c \in BOOLEAN}
        \cup {[class |-> "QueueBreadthFirstIterable", traversalType |-> "BreadthFirst", check |-> c] :
                  c \in BOOLEAN}

\* a variant that hands out the iterator object it made before
GetIteratorReusesIterator(w, nodes) ==
    Let(SymbolIterator(w.iterable, nodes), LAMBDA r :
        IF r.threw THEN [w EXCEPT !.threw = TRUE]
        ELSE IF w.objects # <<>>
        THEN [w EXCEPT !.handles = Append(@, 1), !.received = Append(@, <<>>)]
        ELSE [w EXCEPT !.objects = Append(@, r),
                       !.handles = Append(@, Len(w.objects) + 1),
                       !.received = Append(@, <<>>)])

\* const it = iterable[Symbol.iterator](): a new iterator object and a
\* reference to it, or an exception
GetIterator(w, nodes) ==
    Let(SymbolIterator(w.iterable, nodes), LAMBDA r :
        IF r.threw THEN [w EXCEPT !.threw = TRUE]
        ELSE [w EXCEPT !.objects = Append(@, r),
                       !.handles = Append(@, Len(w.objects) + 1),
                       !.received = Append(@, <<>>)])

\* next() of the iterator of an engine, and the ancestors arrays it holds
EngineNext(engine, it) ==
    CASE engine = "preorder" -> PreorderNext(it)
      [] engine = "postorder" -> PostorderNext(it)
      [] engine = "iterativeDeepening" -> IterativeDeepeningNext(it)
      [] engine = "queue" -> QueueBreadthFirstNext(it)

EngineHeap(engine, it) ==
    CASE engine = "iterativeDeepening" -> it.dfs.heap
      [] engine = "queue" -> <<>>
      [] OTHER -> it.heap

EngineCalls(engine, it) ==
    CASE engine = "iterativeDeepening" -> it.dfs.calls
      [] OTHER -> it.calls

\* an iterable over a tree (no circular-reference check) or over a graph
\* (checked); no iterator has been asked for.  alone is an iterator of the
\* same iterable that no other caller holds, and results is what it yields.
InitIterable ==
    \E iterable \in Iterables :
        \E adjacents \in
                IF iterable.check
                THEN {GraphAdjacents(p, es, FALSE) :
                          p \in UNION {ParentVectors(n) : n \in 1..MaxGraphNodes},
                          es \in {{}} \cup {{e} : e \in (0..MaxGraphNodes) \X (0..MaxGraphNodes)}}
                ELSE {TreeChildren(p, ListOf(<<>>)) : p \in UNION {ParentVectors(n) : n \in 1..MaxNodes}} :
            /\ kind = "iterable"
            /\ traversalRoot = 0
            /\ children = adjacents
            /\ \A v \in DOMAIN adjacents : Range(adjacents[v].items) \subseteq DOMAIN adjacents
            /\ left = <<>>
            /\ right = <<>>
            /\ iter = [iterable |-> iterable,
                       objects |-> <<>>,
                       handles |-> <<>>,
                       received |-> <<>>,
                       threw |-> FALSE,
                       alone |-> SymbolIterator(iterable, DOMAIN adjacents)]
            /\ results = <<>>

(***************************************************************************)
(* A MinHeap used on its own: elements are pushed and popped in any order. *)
(* The elements are compared by their totalCost, as the heap nodes of the  *)
(* shortest-path iterators are.  results is the log of the calls: for a    *)
(* push the element, for a pop what it returned, and for both the length   *)
(* the heap reports after the call.                                        *)
(***************************************************************************)
HeapElements == {[totalCost |-> c] : c \in 0..MaxHeapKey}

HeapLength(heap) == Len(heap)

InitHeap ==
    /\ kind = "heap"
    /\ traversalRoot = 0
    /\ children = <<>>
    /\ left = <<>>
    /\ right = <<>>
    /\ iter = [heap |-> <<>>]
    /\ results = <<>>

(***************************************************************************)
(* Queue (LinkedList.ts) used on its own, with its singly linked nodes:    *)
(* nodes is the store of the SinglyLLNode objects created so far, a node   *)
(* is referred to by its index, and Undefined is the missing reference.    *)
(* results is the log of the calls: the item of an enqueue, what a dequeue *)
(* or a peek returned, and the length the queue reports after the call.    *)
(***************************************************************************)
SinglyLLNode(item) == [item |-> item, next |-> Undefined]

LinkedQueueNew == [nodes |-> <<>>, start |-> Undefined, end |-> Undefined, length |-> 0]

\* a variant that keeps the reference to the last node when the queue
\* becomes empty
LinkedQueueDequeueKeepsEnd(q) ==
    IF q.start = Undefined
    THEN [returned |-> Undefined, q |-> q]
    ELSE LET oldStart == q.start
             q1 == [q EXCEPT !.start = q.nodes[q.start].next]
         IN [returned |-> q.nodes[oldStart].item, q |-> [q1 EXCEPT !.length = @ - 1]]

LinkedQueueDequeue(q) ==
    IF q.start = Undefined
    THEN [returned |-> Undefined, q |-> q]
    ELSE LET oldStart == q.start
             q1 == [q EXCEPT !.start = q.nodes[q.start].next]
             q2 == IF q1.start = Undefined THEN [q1 EXCEPT !.end = Undefined] ELSE q1
         IN [returned |-> q.nodes[oldStart].item, q |-> [q2 EXCEPT !.length = @ - 1]]

LinkedQueueEnqueue(q, item) ==
    LET created == [q EXCEPT !.nodes = Append(@, SinglyLLNode(item))]
        newNode == Len(created.nodes)
        q1 == IF q.start = Undefined /\ q.end = Undefined
              THEN [created EXCEPT !.start = newNode, !.end = newNode]
              ELSE [created EXCEPT !.nodes[q.end].next = newNode, !.end = newNode]
    IN [q1 EXCEPT !.length = @ + 1]

LinkedQueuePeek(q) == IF q.start = Undefined THEN Undefined ELSE q.nodes[q.start].item

LinkedQueueClear(q) == [q EXCEPT !.start = Undefined, !.end = Undefined, !.length = 0]

QueueItems == 0..MaxQueueItem

QueueCall(op, item, returned, q) ==
    [op |-> op, item |-> item, returned |-> returned, length |-> q.length]

InitQueue ==
    /\ kind = "fifo"
    /\ traversalRoot = 0
    /\ children = <<>>
    /\ left = <<>>
    /\ right = <<>>
    /\ iter = LinkedQueueNew
    /\ results = <<>>

(***************************************************************************)
(* SinglyLinkedList (LinkedList.ts).  nodes is the store of the            *)
(* SinglyLLNode objects created so far, first the reference to the first   *)
(* node, length the _length field.  results is the log of the calls: the   *)
(* item or node of the call, whether it threw, and the length the list     *)
(* reports after it.                                                       *)
(***************************************************************************)
SinglyLinkedListNew == [nodes |-> <<>>, first |-> Undefined, length |-> 0]

\* getNodes(): the nodes the ForwardLLNodeIterator yields, in order, each
\* of them once.  A call can link a node object that is linked already;
\* the chain of next references then runs into a node it has passed and
\* the iterator yields without end (IsCyclic).
RECURSIVE NodesWalk(_, _, _)
NodesWalk(nodes, node, passed) ==
    IF node = Undefined \/ node \in passed
    THEN <<>>
    ELSE <<node>> \o NodesWalk(nodes, nodes[node].next, passed \cup {node})

NodesFrom(nodes, node) == NodesWalk(nodes, node, {})

GetNodes(l) == NodesFrom(l.nodes, l.first)

IsCyclic(l) ==
    LET all == GetNodes(l)
    IN all # <<>> /\ l.nodes[all[Len(all)]].next # Undefined

\* find(predicate) and findLast(predicate) over a sequence of nodes
Find(s, Predicate(_)) ==
    IF \E i \in DOMAIN s : Predicate(s[i])
    THEN s[CHOOSE i \in DOMAIN s : Predicate(s[i]) /\ \A j \in 1..(i - 1) : ~Predicate(s[j])]
    ELSE Undefined

FindLast(s) == IF s = <<>> THEN Undefined ELSE s[Len(s)]

NextItemIs(l, node, item) ==
    l.nodes[node].next # Undefined /\ l.nodes[l.nodes[node].next].item = item

\* node and nodeToAdd are references to node objects of the store
AddNodeAfter(l, node, nodeToAdd) ==
    LET l1 == IF l.nodes[node].next # Undefined
              THEN [l EXCEPT !.nodes[nodeToAdd].next = l.nodes[node].next]
              ELSE l
        l2 == [l1 EXCEPT !.nodes[node].next = nodeToAdd]
    IN [l2 EXCEPT !.length = @ + 1]

AddItemAfter(l, node, itemToAdd) ==
    LET created == [l EXCEPT !.nodes = Append(@, SinglyLLNode(itemToAdd))]
    IN AddNodeAfter(created, node, Len(created.nodes))

AddNodeFirst(l, node) ==
    LET l1 == IF l.first # Undefined THEN [l EXCEPT !.nodes[node].next = l.first] ELSE l
    IN [l1 EXCEPT !.first = node]

AddItemFirst(l, item) ==
    LET created == [l EXCEPT !.nodes = Append(@, SinglyLLNode(item))]
    IN AddNodeFirst(created, Len(created.nodes))

\* addItemLast: on an empty list findLast returns undefined and addNodeAfter
\* throws a TypeError reading undefined.next; on a cyclic list findLast
\* never returns (returns = FALSE)
AddItemLast(l, item) ==
    LET nodeToAddAfter == FindLast(GetNodes(l))
    IN IF IsCyclic(l)
       THEN [returns |-> FALSE, threw |-> FALSE, l |-> l]
       ELSE IF nodeToAddAfter = Undefined
       THEN [returns |-> TRUE, threw |-> TRUE, l |-> l]
       ELSE [returns |-> TRUE, threw |-> FALSE, l |-> AddItemAfter(l, nodeToAddAfter, item)]

AddNodeLast(l, nodeToAdd) ==
    LET nodeToAddAfter == FindLast(GetNodes(l))
    IN IF IsCyclic(l)
       THEN [returns |-> FALSE, threw |-> FALSE, l |-> l]
       ELSE IF nodeToAddAfter = Undefined
       THEN [returns |-> TRUE, threw |-> TRUE, l |-> l]
       ELSE [returns |-> TRUE, threw |-> FALSE, l |-> AddNodeAfter(l, nodeToAddAfter, nodeToAdd)]

ListClear(l) == [l EXCEPT !.first = Undefined]

RemoveItem(l, item) ==
    LET nodeBeforeItemToRemove == Find(GetNodes(l), LAMBDA node : NextItemIs(l, node, item))
    IN IF nodeBeforeItemToRemove = Undefined
       THEN [returns |-> ~IsCyclic(l), returned |-> FALSE, l |-> l]
       ELSE [returns |-> TRUE, returned |-> TRUE,
             l |-> [l EXCEPT !.nodes[nodeBeforeItemToRemove].next =
                                 l.nodes[l.nodes[nodeBeforeItemToRemove].next].next]]

RemoveNode(l, node) ==
    LET nodeBeforeNodeToRemove == Find(GetNodes(l), LAMBDA currentNode : l.nodes[currentNode].next = node)
    IN IF nodeBeforeNodeToRemove = Undefined
       THEN [returns |-> ~IsCyclic(l), returned |-> FALSE, l |-> l]
       ELSE [returns |-> TRUE, returned |-> TRUE,
             l |-> [l EXCEPT !.nodes[nodeBeforeNodeToRemove].next =
                                 l.nodes[l.nodes[nodeBeforeNodeToRemove].next].next]]

RemoveFirst(l) ==
    IF l.first = Undefined THEN l ELSE [l EXCEPT !.first = l.nodes[l.first].next]

\* the loop over getNodes() never ends on a cyclic list (returns = FALSE)
RemoveLast(l) ==
    LET withNext == SelectSeq(GetNodes(l), LAMBDA node : l.nodes[node].next # Undefined)
        secondToLastNode == FindLast(withNext)
    IN IF IsCyclic(l) THEN [returns |-> FALSE, l |-> l]
       ELSE IF secondToLastNode = Undefined THEN [returns |-> TRUE, l |-> l]
       ELSE [returns |-> TRUE, l |-> [l EXCEPT !.nodes[secondToLastNode].next = Undefined]]

ListItems == 0..MaxListItem

ListCall(op, arg, threw, l) ==
    [op |-> op, arg |-> arg, threw |-> threw, returns |-> TRUE, length |-> l.length]

InitList ==
    /\ kind = "singlyLinkedList"
    /\ traversalRoot = 0
    /\ children = <<>>
    /\ left = <<>>
    /\ right = <<>>
    /\ iter = SinglyLinkedListNew
    /\ results = <<>>

ListStep(op, arg, threw, l) ==
    /\ iter' = l
    /\ results' = Append(results, ListCall(op, arg, threw, l))
    /\ UNCHANGED <<kind, traversalRoot, children, left, right>>

\* a call that never returns: the list stays as it is and no later call
\* is made
ListHang(op, arg) ==
    /\ results' = Append(results, [ListCall(op, arg, FALSE, iter) EXCEPT !.returns = FALSE])
    /\ UNCHANGED <<kind, traversalRoot, children, left, right, iter>>

ListOutcome(op, arg, r) ==
    IF r.returns THEN ListStep(op, arg, r.threw, r.l) ELSE ListHang(op, arg)

ListCanCall ==
    /\ kind = "singlyLinkedList"
    /\ Len(results) < MaxListOps
    /\ results # <<>> => results[Len(results)].returns

\* the node object a caller passes: one created earlier, linked or not, or
\* a new SinglyLLNode(item); l is the store with that node in it
NodeArguments(l) ==
    {[l |-> l, node |-> node] : node \in DOMAIN l.nodes}
        \cup {[l |-> [l EXCEPT !.nodes = Append(@, SinglyLLNode(item))],
               node |-> Len(l.nodes) + 1] : item \in ListItems}

(***************************************************************************)
(* ExtendedIterable (Collections.ts) over a finite source: reverseOrder()  *)
(* with its ReverseIterator, and every() with some().  A source iterable   *)
(* is the sequence of its elements, a predicate the function that tells    *)
(* for each element whether it satisfies it.                               *)
(***************************************************************************)
SourceItems == 0..MaxSourceItem

Sources == UNION {[1..n -> SourceItems] : n \in 0..MaxSourceLen}

Predicates == [SourceItems -> BOOLEAN]

ReverseIteratorNew(sourceIterable) ==
    [sourceIterable |-> sourceIterable, hasStack |-> FALSE, stack |-> StackNew]

RECURSIVE PushAll(_, _)
PushAll(stack, elements) ==
    IF elements = <<>> THEN stack
    ELSE PushAll(StackPush(stack, Head(elements)), Tail(elements))

ReverseIteratorNext(r) ==
    LET stack == IF ~r.hasStack THEN PushAll(StackNew, r.sourceIterable) ELSE r.stack
        topElement == StackPeek(stack)
        popped == StackPop(stack)
    IN [res |-> [done |-> popped.length = 0, value |-> topElement],
        d |-> [r EXCEPT !.hasStack = TRUE, !.stack = popped]]

RECURSIVE SomeLoop(_, _, _)
SomeLoop(elements, predicate, atLeastOneDidNotSatisfy) ==
    IF elements = <<>> THEN ~atLeastOneDidNotSatisfy
    ELSE IF predicate[Head(elements)] THEN TRUE
    ELSE SomeLoop(Tail(elements), predicate, TRUE)

Some(elements, predicate) == SomeLoop(elements, predicate, FALSE)

Every(elements, predicate) ==
    ~Some(elements, [element \in DOMAIN predicate |-> ~predicate[element]])

InitReverse ==
    \E source \in Sources :
        /\ kind = "reverse"
        /\ traversalRoot = 0
        /\ children = <<>>
        /\ left = <<>>
        /\ right = <<>>
        /\ iter = ReverseIteratorNew(source)
        /\ results = <<>>

InitEvery ==
    \E source \in Sources, predicate \in Predicates :
        /\ kind = "every"
        /\ traversalRoot = 0
        /\ children = <<>>
        /\ left = <<>>
        /\ right = <<>>
        /\ iter = [sourceIterable |-> source, predicate |-> predicate]
        /\ results = <<>>

StackItems == SourceItems

InitStack ==
    /\ kind = "stack"
    /\ traversalRoot = 0
    /\ children = <<>>
    /\ left = <<>>
    /\ right = <<>>
    /\ iter = StackNew
    /\ results = <<>>

StackCall(op, item, returned, stack) ==
    [op |-> op, item |-> item, returned |-> returned, length |-> stack.length]

StackCanCall == kind = "stack" /\ Len(results) < MaxStackOps

(***************************************************************************)
(* A preorder traversal of a tree that the caller edits while it runs:     *)
(* between two next() calls the caller removes children of the node the    *)
(* last call yielded.                                                      *)
(***************************************************************************)
InitEditedTree ==
    \E p \in TreeShapes :
        /\ kind = "preorderEdited"
        /\ traversalRoot = 0
        /\ children = TreeChildren(p, ListOf(<<>>))
        /\ left = <<>>
        /\ right = <<>>
        /\ iter = DepthFirstIteratorNew(0..Len(p), FALSE)
        /\ results = <<>>

\* the traversals of trees, binary trees and graphs by the depth-first,
\* iterative-deepening, queue-based and in-order iterators
TraversalInit == InitTree \/ InitBinary \/ InitAbsentRoot \/ InitGraph

Init == TraversalInit \/ InitDjikstra \/ InitAStar \/ InitIterable \/ InitHeap \/ InitQueue \/ InitList
        \/ InitReverse \/ InitEvery \/ InitStack \/ InitEditedTree

\* the checkForCircularReferences argument of the running traversal
CheckForCircularReferences ==
    CASE kind = "iterativeDeepening" -> iter.dfs.check
      [] kind = "inorder" -> FALSE
      [] OTHER -> iter.check

\* a traversal of kind k of a tree: a present root, no circular-reference check
TreeTraversal(k) ==
    kind = k /\ traversalRoot \notin Absent /\ ~CheckForCircularReferences

\* the heap of ancestors arrays of the running iterator
Heap == CASE kind = "iterativeDeepening" -> iter.dfs.heap
          [] kind \in {"queue", "dijkstra", "astar"} -> <<>>
          [] OTHER -> iter.heap

\* the expansion calls made so far, per node
Calls == CASE kind = "iterativeDeepening" -> iter.dfs.calls
           [] kind = "inorder" -> iter.leftCalls
           [] OTHER -> iter.calls

DoneCalls == Cardinality({i \in DOMAIN results : results[i].done})

CanCall == DoneCalls <= ExtraCalls

\* what the caller holds after a next() call: the result, and what it reads
\* from the result's ancestors, depth and parent at that moment
Observe(res, heap) ==
    IF res.done
    THEN [done |-> TRUE, node |-> Undefined, ancestors |-> 0, path |-> <<>>,
          seen |-> <<>>, depth |-> Undefined, parent |-> Undefined]
    ELSE IF "path" \in DOMAIN res
    THEN [done |-> FALSE, node |-> res.node, ancestors |-> 0, path |-> res.path,
          seen |-> IterateAncestors(BackPathAncestors(res.path)),
          depth |-> Undefined,
          parent |-> BackPathParent(res.path)]
    ELSE [done |-> FALSE, node |-> res.node, ancestors |-> res.ancestors, path |-> <<>>,
          seen |-> heap[res.ancestors],
          depth |-> Depth(heap[res.ancestors]),
          parent |-> Parent(heap[res.ancestors])]

Step(r, heap) ==
    /\ CanCall
    /\ iter' = r.d
    /\ results' = Append(results, Observe(r.res, heap))
    /\ UNCHANGED <<kind, traversalRoot, children, left, right>>

PreorderStep ==
    /\ kind = "preorder"
    /\ \E r \in {PreorderNext(iter)} : Step(r, r.d.heap)

PostorderStep ==
    /\ kind = "postorder"
    /\ \E r \in {PostorderNext(iter)} : Step(r, r.d.heap)

IterativeDeepeningStep ==
    /\ kind = "iterativeDeepening"
    /\ \E r \in {IterativeDeepeningNext(iter)} : Step(r, r.d.dfs.heap)

QueueStep ==
    /\ kind = "queue"
    /\ \E r \in {QueueBreadthFirstNext(iter)} : Step(r, <<>>)

InOrderStep ==
    /\ kind = "inorder"
    /\ \E r \in {InOrderNext(iter)} : Step(r, r.d.heap)

\* a next() call of the shortest-path iterator either returns, or runs for
\* ever and leaves the caller inside it
DjikstraStep ==
    /\ kind \in {"dijkstra", "astar"}
    /\ ~iter.running
    /\ Len(results) < MaxDijkstraCalls
    /\ \E r \in {DjikstraNext(iter)} :
           IF r.returns
           THEN Step(r, <<>>)
           ELSE /\ CanCall
                /\ iter' = r.d
                /\ UNCHANGED <<kind, traversalRoot, children, left, right, results>>

\* the caller asks the iterable for an iterator; it asks for two at most, and
\* for none after an exception
GetIteratorStep ==
    /\ kind = "iterable"
    /\ ~iter.threw
    /\ Len(iter.handles) < 2
    /\ iter' = GetIterator(iter, Nodes)
    /\ UNCHANGED <<kind, traversalRoot, children, left, right, results>>

HasReportedDone(rs) == \E i \in DOMAIN rs : rs[i].done

\* the caller calls next() through one of its references, until that
\* reference has reported done; the iterator held alone makes the same
\* number of calls as the reference that has made most
IterableNextStep ==
    /\ kind = "iterable"
    /\ \E h \in DOMAIN iter.handles :
           /\ ~HasReportedDone(iter.received[h])
           /\ \E o \in {iter.objects[iter.handles[h]]} :
                  \E r \in {EngineNext(o.engine, o.iterator)} :
                      \E a \in {IF Len(iter.received[h]) < Len(results)
                                 THEN [stepped |-> FALSE, res |-> DoneResult, d |-> iter.alone.iterator]
                                 ELSE [stepped |-> TRUE] @@ EngineNext(o.engine, iter.alone.iterator)} :
                          /\ iter' = [iter EXCEPT
                                         !.objects[iter.handles[h]].iterator = r.d,
                                         !.received[h] =
                                             Append(@, Observe(r.res, EngineHeap(o.engine, r.d))),
                                         !.alone.iterator = a.d]
                          /\ results' = IF a.stepped
                                        THEN Append(results,
                                                    Observe(a.res, EngineHeap(o.engine, a.d)))
                                        ELSE results
    /\ UNCHANGED <<kind, traversalRoot, children, left, right>>

HeapPushStep ==
    /\ kind = "heap"
    /\ Len(results) < MaxHeapOps
    /\ \E element \in HeapElements :
           \E h \in {HeapPush(iter.heap, element)} :
               /\ iter' = [iter EXCEPT !.heap = h]
               /\ results' = Append(results, [op |-> "push", defined |-> TRUE,
                                              value |-> element, length |-> HeapLength(h)])
    /\ UNCHANGED <<kind, traversalRoot, children, left, right>>

HeapPopStep ==
    /\ kind = "heap"
    /\ Len(results) < MaxHeapOps
    /\ \E r \in {HeapPop(iter.heap)} :
           /\ iter' = [iter EXCEPT !.heap = r.heap]
           /\ results' = Append(results, [op |-> "pop", defined |-> r.defined,
                                          value |-> r.value, length |-> HeapLength(r.heap)])
    /\ UNCHANGED <<kind, traversalRoot, children, left, right>>

EnqueueStep ==
    /\ kind = "fifo"
    /\ Len(results) < MaxQueueOps
    /\ \E item \in QueueItems :
           \E q \in {LinkedQueueEnqueue(iter, item)} :
               /\ iter' = q
               /\ results' = Append(results, QueueCall("enqueue", item, Undefined, q))
    /\ UNCHANGED <<kind, traversalRoot, children, left, right>>

DequeueStep ==
    /\ kind = "fifo"
    /\ Len(results) < MaxQueueOps
    /\ \E r \in {LinkedQueueDequeue(iter)} :
           /\ iter' = r.q
           /\ results' = Append(results, QueueCall("dequeue", Undefined, r.returned, r.q))
    /\ UNCHANGED <<kind, traversalRoot, children, left, right>>

PeekStep ==
    /\ kind = "fifo"
    /\ Len(results) < MaxQueueOps
    /\ results' = Append(results, QueueCall("peek", Undefined, LinkedQueuePeek(iter), iter))
    /\ UNCHANGED <<kind, traversalRoot, children, left, right, iter>>

ClearStep ==
    /\ kind = "fifo"
    /\ Len(results) < MaxQueueOps
    /\ \E q \in {LinkedQueueClear(iter)} :
           /\ iter' = q
           /\ results' = Append(results, QueueCall("clear", Undefined, Undefined, q))
    /\ UNCHANGED <<kind, traversalRoot, children, left, right>>

AddItemFirstStep ==
    /\ ListCanCall
    /\ \E item \in ListItems : ListStep("addItemFirst", item, FALSE, AddItemFirst(iter, item))

AddNodeFirstStep ==
    /\ ListCanCall
    /\ \E a \in NodeArguments(iter) :
           ListStep("addNodeFirst", a.node, FALSE, AddNodeFirst(a.l, a.node))

\* the caller passes a node it obtained from the list at some time
AddItemAfterStep ==
    /\ ListCanCall
    /\ \E item \in ListItems, node \in DOMAIN iter.nodes :
           ListStep("addItemAfter", item, FALSE, AddItemAfter(iter, node, item))

AddNodeAfterStep ==
    /\ ListCanCall
    /\ \E a \in NodeArguments(iter), node \in DOMAIN iter.nodes :
           ListStep("addNodeAfter", a.node, FALSE, AddNodeAfter(a.l, node, a.node))

AddItemLastStep ==
    /\ ListCanCall
    /\ \E item \in ListItems : ListOutcome("addItemLast", item, AddItemLast(iter, item))

AddNodeLastStep ==
    /\ ListCanCall
    /\ \E a \in NodeArguments(iter) :
           ListOutcome("addNodeLast", a.node, AddNodeLast(a.l, a.node))

RemoveItemStep ==
    /\ ListCanCall
    /\ \E item \in ListItems :
           ListOutcome("removeItem", item, [threw |-> FALSE] @@ RemoveItem(iter, item))

\* the caller passes a node it obtained from the list at some time
RemoveNodeStep ==
    /\ ListCanCall
    /\ \E node \in DOMAIN iter.nodes :
           ListOutcome("removeNode", node, [threw |-> FALSE] @@ RemoveNode(iter, node))

RemoveFirstStep ==
    /\ ListCanCall
    /\ ListStep("removeFirst", Undefined, FALSE, RemoveFirst(iter))

RemoveLastStep ==
    /\ ListCanCall
    /\ ListOutcome("removeLast", Undefined, [threw |-> FALSE] @@ RemoveLast(iter))

ListClearStep ==
    /\ ListCanCall
    /\ ListStep("clear", Undefined, FALSE, ListClear(iter))

\* next() is called as often as the source has elements and ExtraCalls
\* more times
ReverseNextStep ==
    /\ kind = "reverse"
    /\ Len(results) < Len(iter.sourceIterable) + ExtraCalls
    /\ \E r \in {ReverseIteratorNext(iter)} :
           /\ iter' = r.d
           /\ results' = Append(results, r.res)
    /\ UNCHANGED <<kind, traversalRoot, children, left, right>>

EveryStep ==
    /\ kind = "every"
    /\ results = <<>>
    /\ results' = <<[returned |-> Every(iter.sourceIterable, iter.predicate)]>>
    /\ UNCHANGED <<kind, traversalRoot, children, left, right, iter>>

StackPushStep ==
    /\ StackCanCall
    /\ \E item \in StackItems :
           \E stack \in {StackPush(iter, item)} :
               /\ iter' = stack
               /\ results' = Append(results, StackCall("push", item, Undefined, stack))
    /\ UNCHANGED <<kind, traversalRoot, children, left, right>>

StackPopStep ==
    /\ StackCanCall
    /\ \E stack \in {StackPop(iter)} :
           /\ iter' = stack
           /\ results' = Append(results, StackCall("pop", Undefined, StackPeek(iter), stack))
    /\ UNCHANGED <<kind, traversalRoot, children, left, right>>

StackPeekStep ==
    /\ StackCanCall
    /\ results' = Append(results, StackCall("peek", Undefined, StackPeek(iter), iter))
    /\ UNCHANGED <<kind, traversalRoot, children, left, right, iter>>

StackClearStep ==
    /\ StackCanCall
    /\ \E stack \in {StackClear(iter)} :
           /\ iter' = stack
           /\ results' = Append(results, StackCall("clear", Undefined, Undefined, stack))
    /\ UNCHANGED <<kind, traversalRoot, children, left, right>>

\* next() on the tree as it is now, until it reports done
EditedPreorderStep ==
    /\ kind = "preorderEdited"
    /\ \A i \in DOMAIN results : ~results[i].done
    /\ \E r \in {PreorderNext(iter)} :
           /\ iter' = r.d
           /\ results' = Append(results, Observe(r.res, r.d.heap))
    /\ UNCHANGED <<kind, traversalRoot, children, left, right>>

\* the caller removes some or all children of the node just yielded
RemoveChildrenStep ==
    /\ kind = "preorderEdited"
    /\ results # <<>>
    /\ ~results[Len(results)].done
    /\ \E kept \in SUBSET Range(children[results[Len(results)].node].items) :
           /\ kept # Range(children[results[Len(results)].node].items)
           /\ children' = [children EXCEPT ![results[Len(results)].node] =
                              ListOf(SelectSeq(@.items, LAMBDA c : c \in kept))]
    /\ UNCHANGED <<kind, traversalRoot, left, right, iter, results>>

TraversalNext ==
    \/ PreorderStep
    \/ PostorderStep
    \/ IterativeDeepeningStep
    \/ QueueStep
    \/ InOrderStep

Next ==
    \/ TraversalNext
    \/ DjikstraStep
    \/ GetIteratorStep
    \/ IterableNextStep
    \/ HeapPushStep
    \/ HeapPopStep
    \/ EnqueueStep
    \/ DequeueStep
    \/ PeekStep
    \/ ClearStep
    \/ AddItemFirstStep
    \/ AddItemAfterStep
    \/ AddItemLastStep
    \/ AddNodeFirstStep
    \/ AddNodeAfterStep
    \/ AddNodeLastStep
    \/ RemoveItemStep
    \/ RemoveNodeStep
    \/ RemoveFirstStep
    \/ RemoveLastStep
    \/ ListClearStep
    \/ ReverseNextStep
    \/ EveryStep
    \/ StackPushStep
    \/ StackPopStep
    \/ StackPeekStep
    \/ StackClearStep
    \/ EditedPreorderStep
    \/ RemoveChildrenStep

Spec == Init /\ [][Next]_vars

\* the traversals of TraversalInit, whose caller keeps calling next() for as
\* long as the model lets it
FairSpec == TraversalInit /\ [][TraversalNext]_vars /\ WF_vars(TraversalNext)

(***************************************************************************)
(* What the claims speak about: the tree as a mathematical object, and the *)
(* sequence of elements the caller received.                               *)
(***************************************************************************)
IsReferenceTree == Cardinality(Nodes) = 11

\* the parent of a node other than the root
ParentOf(v) == CHOOSE u \in Nodes : v \in Range(children[u].items)

\* the ancestors of a node, the root first and the parent last
RECURSIVE PathTo(_)
PathTo(v) == IF v = traversalRoot THEN <<>> ELSE Append(PathTo(ParentOf(v)), ParentOf(v))

DepthOf(v) == Len(PathTo(v))

IsAncestorOf(a, v) == a \in Range(PathTo(v))

\* the position of a node in the list its parent's expansion returns
SiblingIndex(v) == CHOOSE i \in DOMAIN children[ParentOf(v)].items : children[ParentOf(v)].items[i] = v

\* the results received before next() first reported done
FirstDone == IF DoneCalls = 0 THEN Len(results) + 1
             ELSE CHOOSE i \in DOMAIN results : results[i].done /\ \A j \in 1..(i - 1) : ~results[j].done

BeforeDone == SubSeq(results, 1, FirstDone - 1)

\* the present (neither null nor undefined) nodes received, in order
NodesOf(rs) == LET present == SelectSeq(rs, LAMBDA r : r.node \notin Absent)
               IN [i \in DOMAIN present |-> present[i].node]

YieldedNodes == NodesOf(BeforeDone)

NoDuplicates(s) == \A i, j \in DOMAIN s : i # j => s[i] # s[j]

SiblingsInExpansionOrder(s) ==
    \A i, j \in DOMAIN s :
        (i < j /\ s[i] # traversalRoot /\ s[j] # traversalRoot /\ ParentOf(s[i]) = ParentOf(s[j]))
            => SiblingIndex(s[i]) < SiblingIndex(s[j])

RECURSIVE Flatten(_)
Flatten(ss) == IF ss = <<>> THEN <<>> ELSE Head(ss) \o Flatten(Tail(ss))

PresentKids(v) == SelectSeq(children[v].items, LAMBDA c : c \notin Absent)

\* the textbook listings of the subtree below v
RECURSIVE PreorderListing(_)
PreorderListing(v) ==
    <<v>> \o Flatten([i \in DOMAIN PresentKids(v) |-> PreorderListing(PresentKids(v)[i])])

RECURSIVE PostorderListing(_)
PostorderListing(v) ==
    Flatten([i \in DOMAIN PresentKids(v) |-> PostorderListing(PresentKids(v)[i])]) \o <<v>>

(***************************************************************************)
(* C1.  Preorder (DFS / DFSWithMetadata): on every finite tree, calling    *)
(* next() until it first reports done yields every node exactly once,      *)
(* every node before each of its descendants and siblings in the order the *)
(* expansion returns them, which makes the sequence the preorder listing   *)
(* of the tree; on the reference tree it is 0,1,3,4,2,5,6,7,8,9,10.        *)
(***************************************************************************)
C1_PreorderYieldsPreorder ==
    TreeTraversal("preorder") =>
        /\ NoDuplicates(YieldedNodes)
        /\ \A i, j \in DOMAIN YieldedNodes :
               i < j => ~IsAncestorOf(YieldedNodes[j], YieldedNodes[i])
        /\ SiblingsInExpansionOrder(YieldedNodes)
        /\ DoneCalls >= 1 =>
               /\ Range(YieldedNodes) = Nodes
               /\ YieldedNodes = PreorderListing(traversalRoot)
               /\ IsReferenceTree => YieldedNodes = <<0, 1, 3, 4, 2, 5, 6, 7, 8, 9, 10>>

C1_Witness ==
    /\ kind = "preorder"
    /\ IsReferenceTree
    /\ DoneCalls = 1
    /\ YieldedNodes = <<0, 1, 3, 4, 2, 5, 6, 7, 8, 9, 10>>

(***************************************************************************)
(* C2.  Postorder (DFSPostorder / DFSPostorderWithMetadata): on every      *)
(* finite tree, calling next() until done yields every node exactly once,  *)
(* every node after all of its descendants, siblings in expansion order,   *)
(* and the root last, after which next() reports done; on the reference    *)
(* tree the sequence is 3,4,1,5,10,9,8,7,6,2,0.                            *)
(***************************************************************************)
C2_PostorderYieldsPostorder ==
    TreeTraversal("postorder") =>
        /\ NoDuplicates(YieldedNodes)
        /\ \A i, j \in DOMAIN YieldedNodes :
               i < j => ~IsAncestorOf(YieldedNodes[i], YieldedNodes[j])
        /\ SiblingsInExpansionOrder(YieldedNodes)
        /\ \A i \in DOMAIN results :
               (~results[i].done /\ results[i].node = traversalRoot)
                   => /\ \A j \in 1..(i - 1) : ~results[j].done
                      /\ \A j \in (i + 1)..Len(results) : results[j].done
        /\ DoneCalls >= 1 =>
               /\ Range(YieldedNodes) = Nodes
               /\ BeforeDone # <<>> /\ Last(BeforeDone).node = traversalRoot
               /\ YieldedNodes = PostorderListing(traversalRoot)
               /\ IsReferenceTree => YieldedNodes = <<3, 4, 1, 5, 10, 9, 8, 7, 6, 2, 0>>

C2_Witness ==
    /\ kind = "postorder"
    /\ IsReferenceTree
    /\ DoneCalls = 1
    /\ YieldedNodes = <<3, 4, 1, 5, 10, 9, 8, 7, 6, 2, 0>>

\* the subtree below a child slot of a binary node, listed left - node - right
RECURSIVE InOrderListing(_)
InOrderListing(v) ==
    IF v \in Absent THEN <<>>
    ELSE InOrderListing(left[v]) \o <<v>> \o InOrderListing(right[v])

(***************************************************************************)
(* C3.  In-order (DFSInOrder / DFSInOrderWithMetadata): on every finite    *)
(* binary tree with a present root, whatever children are absent, calling  *)
(* next() until done yields every node exactly once, each node after the   *)
(* nodes of its left subtree and before the nodes of its right subtree; on *)
(* the reference binary tree the sequence is 3,1,4,0,5,2,7,9,10,8,6.       *)
(***************************************************************************)
C3_InOrderYieldsInOrder ==
    (TreeTraversal("inorder") /\ DoneCalls >= 1) =>
        /\ NoDuplicates(YieldedNodes)
        /\ Range(YieldedNodes) = Nodes
        /\ YieldedNodes = InOrderListing(traversalRoot)
        /\ IsReferenceTree => YieldedNodes = <<3, 1, 4, 0, 5, 2, 7, 9, 10, 8, 6>>

DepthNonDecreasing(s) == \A i, j \in DOMAIN s : i < j => DepthOf(s[i]) <= DepthOf(s[j])

PositionIn(s, v) == CHOOSE i \in DOMAIN s : s[i] = v

\* nodes of equal depth come in the order their parents came, and children
\* of one parent in the order its expansion lists them
LeftToRight(s) ==
    \A i, j \in DOMAIN s :
        (i < j /\ DepthOf(s[i]) = DepthOf(s[j]) /\ s[i] # traversalRoot /\ s[j] # traversalRoot)
            => /\ ParentOf(s[i]) \in Range(s)
               /\ ParentOf(s[j]) \in Range(s)
               /\ IF ParentOf(s[i]) = ParentOf(s[j])
                  THEN SiblingIndex(s[i]) < SiblingIndex(s[j])
                  ELSE PositionIn(s, ParentOf(s[i])) < PositionIn(s, ParentOf(s[j]))

(***************************************************************************)
(* C4.  Queue-based breadth-first traversal (BFSFast /                     *)
(* BFSFastWithMetadata): on every finite tree, calling next() until done   *)
(* yields every node exactly once, in non-decreasing depth, nodes of equal *)
(* depth left to right (by the order their parents were yielded, then by   *)
(* expansion order); on the reference tree it is 0,1,2,...,10.             *)
(***************************************************************************)
C4_QueueYieldsLevelOrder ==
    TreeTraversal("queue") =>
        /\ NoDuplicates(YieldedNodes)
        /\ DepthNonDecreasing(YieldedNodes)
        /\ LeftToRight(YieldedNodes)
        /\ DoneCalls >= 1 =>
               /\ Range(YieldedNodes) = Nodes
               /\ IsReferenceTree => YieldedNodes = <<0, 1, 2, 3, 4, 5, 6, 7, 8, 9, 10>>

C4_Witness ==
    /\ kind = "queue"
    /\ IsReferenceTree
    /\ DoneCalls = 1
    /\ YieldedNodes = <<0, 1, 2, 3, 4, 5, 6, 7, 8, 9, 10>>

\* everything a fresh queue-based traversal of the tree yields before done
RECURSIVE QueueRun(_)
QueueRun(q) ==
    LET r == QueueBreadthFirstNext(q)
    IN IF r.res.done THEN <<>> ELSE <<r.res>> \o QueueRun(r.d)

QueueOutput == NodesOf(QueueRun(QueueBreadthFirstNew(Nodes, FALSE)))

IsPrefix(s, t) == Len(s) <= Len(t) /\ s = SubSeq(t, 1, Len(s))

\* what the running iterative-deepening traversal has yielded is what the
\* queue-based traversal of the same tree yields
SameAsQueueBased ==
    TreeTraversal("iterativeDeepening") =>
        /\ IsPrefix(YieldedNodes, QueueOutput)
        /\ DoneCalls >= 1 => YieldedNodes = QueueOutput

(***************************************************************************)
(* C5.  On every finite tree the iterative-deepening breadth-first         *)
(* traversal (BFS) and the queue-based one (BFSFast) yield the same        *)
(* sequence of nodes, and each of them reports done after finitely many    *)
(* next() calls.  The sequences compared are those of the present nodes.   *)
(***************************************************************************)
C5_BreadthFirstStrategiesAgree ==
    /\ [](SameAsQueueBased)
    /\ <>((TreeTraversal("iterativeDeepening") \/ TreeTraversal("queue")) => DoneCalls >= 1)

C5_Witness ==
    /\ kind = "iterativeDeepening"
    /\ IsReferenceTree
    /\ DoneCalls = 1
    /\ YieldedNodes = QueueOutput
    /\ Len(QueueOutput) = 11

WithMetadataKinds == {"preorder", "postorder", "iterativeDeepening", "inorder"}

(***************************************************************************)
(* C6.  For every element the preorder, postorder, iterative-deepening and *)
(* in-order WithMetadata traversals yield, read at the moment it is        *)
(* yielded: depth = ancestors.length = the number of edges from the        *)
(* traversal root to the node; ancestors is the path from the root to the  *)
(* parent, root first (ancestors[0] is the root whenever depth > 0, the    *)
(* last entry is the parent); the root has depth 0 and no parent.  An      *)
(* element that carries an absent child is positioned below the node that  *)
(* listed it.                                                              *)
(***************************************************************************)
C6_MetadataAtYield ==
    (\E k \in WithMetadataKinds : TreeTraversal(k)) =>
        \A i \in DOMAIN results :
            ~results[i].done =>
                LET e == results[i]
                IN /\ e.depth = Len(e.seen)
                   /\ e.depth > 0 => (e.seen[1] = traversalRoot /\ e.parent = Last(e.seen))
                   /\ e.depth = 0 => e.parent = Undefined
                   /\ IF e.node \in Absent
                      THEN /\ e.seen # <<>>
                           /\ e.node \in Range(children[Last(e.seen)].items)
                           /\ e.seen = Append(PathTo(Last(e.seen)), Last(e.seen))
                      ELSE /\ e.seen = PathTo(e.node)
                           /\ e.depth = DepthOf(e.node)
                           /\ e.node # traversalRoot => e.parent = ParentOf(e.node)
                           /\ e.node = traversalRoot => (e.depth = 0 /\ e.parent = Undefined)

C6_Witness ==
    /\ kind = "iterativeDeepening"
    /\ IsReferenceTree
    /\ \E i \in DOMAIN results :
           /\ ~results[i].done
           /\ results[i].node = 10
           /\ results[i].seen = <<0, 2, 6, 7, 8, 9>>
           /\ results[i].depth = 6
           /\ results[i].parent = 9

(***************************************************************************)
(* C7.  A yielded NodeWithMetadata is a snapshot: after next() returned it *)
(* (preorder, postorder, iterative deepening or in-order), no later next() *)
(* call on the same iterator changes its ancestors sequence or its depth,  *)
(* so what the caller reads from it now is what it read when it was        *)
(* yielded.                                                                *)
(***************************************************************************)
C7_YieldedElementIsSnapshot ==
    (\E k \in WithMetadataKinds : TreeTraversal(k)) =>
        \A i \in DOMAIN results :
            ~results[i].done =>
                /\ Heap[results[i].ancestors] = results[i].seen
                /\ Depth(Heap[results[i].ancestors]) = results[i].depth

Reverse(s) == [i \in DOMAIN s |-> s[Len(s) + 1 - i]]

(***************************************************************************)
(* C8.  For every element the queue-based traversal with metadata yields   *)
(* on a finite tree, iterating its ancestors gives the nodes on the path   *)
(* to the root, the parent first and the traversal root last, without the  *)
(* node itself; the root element has an absent parent and an empty         *)
(* ancestors sequence.                                                     *)
(***************************************************************************)
C8_BackPathAncestors ==
    TreeTraversal("queue") =>
        \A i \in DOMAIN results :
            ~results[i].done =>
                LET e == results[i]
                IN IF e.node \in Absent
                   THEN /\ e.seen # <<>>
                        /\ e.node \in Range(children[e.seen[1]].items)
                        /\ e.seen = Reverse(Append(PathTo(e.seen[1]), e.seen[1]))
                   ELSE /\ e.seen = Reverse(PathTo(e.node))
                        /\ e.node \notin Range(e.seen)
                        /\ e.node = traversalRoot => (e.parent = NoParent /\ e.seen = <<>>)
                        /\ e.node # traversalRoot =>
                               /\ e.parent # NoParent
                               /\ Head(e.parent) = ParentOf(e.node)
                               /\ e.seen[1] = ParentOf(e.node)
                               /\ Last(e.seen) = traversalRoot

C8_Witness ==
    /\ kind = "queue"
    /\ IsReferenceTree
    /\ \E i, j \in DOMAIN results :
           /\ ~results[i].done /\ results[i].node = 10
           /\ results[i].seen = <<9, 8, 7, 6, 2, 0>>
           /\ ~results[j].done /\ results[j].node = 0
           /\ results[j].seen = <<>> /\ results[j].parent = NoParent

(***************************************************************************)
(* C9.  During one full preorder traversal of a finite tree (next() called *)
(* until it first reports done) the expansion function is called exactly   *)
(* once on every present node: never twice while the traversal runs, and   *)
(* once on each node by the time done is first reported.                   *)
(***************************************************************************)
C9_PreorderExpandsOnce ==
    TreeTraversal("preorder") =>
        /\ DoneCalls <= 1 => \A v \in Nodes : Calls[v] <= 1
        /\ DoneCalls = 1 => \A v \in Nodes : Calls[v] = 1

C9_Witness ==
    /\ kind = "preorder"
    /\ IsReferenceTree
    /\ DoneCalls = 1
    /\ \A v \in Nodes : Calls[v] = 1

(***************************************************************************)
(* C10.  During one full postorder traversal of a finite tree (next()      *)
(* called until it first reports done) the expansion function is called    *)
(* exactly once on every present node, leaf or not.                        *)
(***************************************************************************)
C10_PostorderExpandsOnce ==
    TreeTraversal("postorder") =>
        /\ \A v \in Nodes : Calls[v] <= 1
        /\ DoneCalls >= 1 => \A v \in Nodes : Calls[v] = 1

C10_Witness ==
    /\ kind = "postorder"
    /\ IsReferenceTree
    /\ DoneCalls = 1
    /\ \E v \in Nodes : PresentKids(v) = <<>> /\ Calls[v] = 1
    /\ \E v \in Nodes : PresentKids(v) # <<>> /\ Calls[v] = 1

IsNonLeaf(v) == PresentKids(v) # <<>>

(***************************************************************************)
(* C11 as stated.  Over one full postorder traversal of a finite tree the  *)
(* expansion function is called twice on every non-leaf node: once when    *)
(* the traversal descends into it and once more through the exhausted      *)
(* check made before its level is popped.                                  *)
(***************************************************************************)
C11_PostorderExpandsNonLeafTwice ==
    (TreeTraversal("postorder") /\ DoneCalls >= 1) =>
        \A v \in Nodes : IsNonLeaf(v) => Calls[v] = 2

(***************************************************************************)
(* C11 as amended.  Over one full postorder traversal of a finite tree the *)
(* expansion function is called once on every non-leaf node, when the      *)
(* traversal descends into it; the next() call that comes back to the node *)
(* through the exhausted check, pops its level and yields it makes no      *)
(* expansion call on it.                                                   *)
(***************************************************************************)
C11_PostorderExpandsNonLeafOnce ==
    [][TreeTraversal("postorder") =>
          \A v \in Nodes :
              IsNonLeaf(v) =>
                  /\ Calls'[v] <= 1
                  /\ DoneCalls' >= 1 => Calls'[v] = 1
                  /\ (Len(results') = Len(results) + 1 /\ ~Last(results').done /\ Last(results').node = v)
                         => (Calls[v] = 1 /\ Calls'[v] = 1)]_vars

C11_Witness ==
    /\ kind = "postorder"
    /\ IsReferenceTree
    /\ DoneCalls = 1
    /\ Last(BeforeDone).node = traversalRoot
    /\ \A v \in Nodes : IsNonLeaf(v) => Calls[v] = 1

\* the present nodes among all the results received so far
AllYieldedNodes == NodesOf(results)

(***************************************************************************)
(* C12.  During one full queue-based breadth-first traversal of a finite   *)
(* tree the expansion function is called exactly once on every present     *)
(* node, inside the next() call that yields the node: after every next()   *)
(* call the nodes with one expansion call are exactly the nodes yielded so *)
(* far, and no node has more than one.                                     *)
(***************************************************************************)
C12_QueueExpandsOnceAtYield ==
    TreeTraversal("queue") =>
        /\ \A v \in Nodes :
               Calls[v] = IF v \in Range(AllYieldedNodes) THEN 1 ELSE 0
        /\ DoneCalls >= 1 => \A v \in Nodes : Calls[v] = 1

C12_Witness ==
    /\ kind = "queue"
    /\ IsReferenceTree
    /\ DoneCalls = 0
    /\ AllYieldedNodes = <<0, 1, 2, 3>>
    /\ \A v \in Nodes : Calls[v] = IF v <= 3 THEN 1 ELSE 0

Max(S) == CHOOSE x \in S : \A y \in S : y <= x

Min(S) == CHOOSE x \in S : \A y \in S : x <= y

\* the height of the tree: the largest depth of a node
Height == Max({DepthOf(v) : v \in Nodes})

\* the absent values (null, undefined) that some expansion lists as a child
ListedAbsent == {x \in Absent : \E v \in Nodes : x \in Range(children[v].items)}

\* the depth of the shallowest child entry that holds the absent value x
ShallowestEntry(x) == Min({DepthOf(v) + 1 : v \in {w \in Nodes : x \in Range(children[w].items)}})

\* the largest depth of an element the traversal hands out: a node, or the
\* shallowest entry of an absent value (the iterator's visited set lets each
\* value through once)
ElementHeight == Max({Height} \cup {ShallowestEntry(x) : x \in ListedAbsent})

\* the expansion calls the completed passes 0 .. bound - 1 made on a node of depth k
CallsOfCompletedPasses(bound, k) == IF bound - 1 - k > 0 THEN bound - 1 - k ELSE 0

\* while pass number iter.currentDepth runs (or has just ended the
\* traversal), when the deepest element that is yielded has depth H
PassInvariant(H) ==
    LET bound == iter.currentDepth
    IN /\ iter.dfs.maxDepth = bound
       /\ bound <= H + 1
       /\ \A v \in Nodes :
              /\ DepthOf(v) < bound => v \in Range(AllYieldedNodes)
              /\ v \in Range(AllYieldedNodes) => DepthOf(v) <= bound
              /\ DepthOf(v) >= bound => Calls[v] = 0
              /\ DepthOf(v) < bound =>
                     Calls[v] \in {CallsOfCompletedPasses(bound, DepthOf(v)),
                                   CallsOfCompletedPasses(bound, DepthOf(v)) + 1}
       /\ \A x \in Absent : Calls[x] = 0
       /\ (results # <<>> /\ ~Last(results).done) =>
              /\ Last(results).depth = bound
              /\ Last(results).node \in Nodes => DepthOf(Last(results).node) = bound
       /\ DoneCalls >= 1 =>
              /\ bound = H + 1
              /\ \A v \in Nodes : Calls[v] = H + 1 - DepthOf(v)

\* the bound grows by exactly one, and the call that first reports done is
\* one that raised it
BoundGrowsByOne ==
    /\ iter'.currentDepth \in {iter.currentDepth, iter.currentDepth + 1}
    /\ (DoneCalls = 0 /\ DoneCalls' = 1) => iter'.currentDepth = iter.currentDepth + 1

(***************************************************************************)
(* C13 as stated.  Iterative-deepening BFS on a finite tree of height H    *)
(* runs bounded preorder passes with bounds 0,1,2,... growing by exactly   *)
(* one, and ends at the end of the first pass that yields nothing, which   *)
(* is pass H+1.  Pass b yields exactly the nodes of depth b, expands every *)
(* node of depth below b once and no node of depth b or more, so that a    *)
(* node of depth k is expanded H+1-k times in all.                         *)
(***************************************************************************)
C13_IterativeDeepeningEndsAtHeight ==
    /\ [](TreeTraversal("iterativeDeepening") => PassInvariant(Height))
    /\ [][TreeTraversal("iterativeDeepening") => BoundGrowsByOne]_vars

(***************************************************************************)
(* C13 amended.  The passes are as stated, but an absent child entry       *)
(* (null or undefined) that an expansion lists is handed out as an element *)
(* one level below the node that lists it, once per value, at its          *)
(* shallowest entry, and it is never expanded.  The traversal ends at the  *)
(* end of the first pass that yields no element, which is pass E+1 for E   *)
(* the largest depth of a yielded element: E = H, or E = H+1 when the      *)
(* shallowest absent entry lies below the deepest node.  A node of depth k *)
(* is expanded E+1-k times in all.                                         *)
(***************************************************************************)
C13_IterativeDeepeningPasses ==
    /\ [](TreeTraversal("iterativeDeepening") => PassInvariant(ElementHeight))
    /\ [][TreeTraversal("iterativeDeepening") => BoundGrowsByOne]_vars

\* 0 -> [1], 1 -> [null]: H = 1, the null entry is yielded in pass 2 and the
\* traversal ends in pass 3
C13_Witness ==
    /\ kind = "iterativeDeepening"
    /\ Cardinality(Nodes) = 2
    /\ children[1] = ListOf(<<Null>>)
    /\ Height = 1 /\ ElementHeight = 2
    /\ DoneCalls = 1
    /\ AllYieldedNodes = <<0, 1>>
    /\ Len(results) = 4
    /\ results[3].node = Null /\ results[3].depth = 2
    /\ iter.currentDepth = 3
    /\ Calls[0] = 3 /\ Calls[1] = 2 /\ Calls[Null] = 0

(***************************************************************************)
(* C14.  In an in-order traversal of a finite binary tree getLeft() and    *)
(* getRight() are each called exactly once on every node over the full     *)
(* traversal, and at the moment a node is yielded getLeft() has been       *)
(* called on it exactly once and getRight() not yet.                       *)
(***************************************************************************)
C14_InOrderLeftRightOnce ==
    TreeTraversal("inorder") =>
        /\ \A v \in Nodes : iter.leftCalls[v] <= 1 /\ iter.rightCalls[v] <= 1
        /\ DoneCalls >= 1 =>
               \A v \in Nodes : iter.leftCalls[v] = 1 /\ iter.rightCalls[v] = 1
        /\ (results # <<>> /\ ~Last(results).done) =>
               /\ iter.leftCalls[Last(results).node] = 1
               /\ iter.rightCalls[Last(results).node] = 0

C14_Witness ==
    /\ kind = "inorder"
    /\ IsReferenceTree
    /\ DoneCalls = 1
    /\ Len(YieldedNodes) = 11
    /\ \A v \in Nodes : iter.leftCalls[v] = 1 /\ iter.rightCalls[v] = 1

(***************************************************************************)
(* C15.  When the traversal root is absent (null or undefined) every       *)
(* traversal kind yields an empty sequence: the first next() reports done  *)
(* and no element, in particular none with an absent node, is yielded.     *)
(* (Nothing can be expanded: the engines hold no present node.)            *)
(***************************************************************************)
C15_AbsentRootYieldsNothing ==
    traversalRoot \in Absent => \A i \in DOMAIN results : results[i].done

\* a graph-mode traversal of kind k: a present root, circular references checked
GraphTraversal(k) ==
    kind = k /\ traversalRoot \notin Absent /\ CheckForCircularReferences

\* the nodes at most k hops from the root
RECURSIVE WithinHops(_)
WithinHops(k) ==
    IF k = 0 THEN {traversalRoot}
    ELSE LET near == WithinHops(k - 1)
         IN near \cup {c \in Nodes : \E v \in near : c \in Range(children[v].items)}

Reachable == WithinHops(Cardinality(Nodes))

\* the length of a shortest path from the root
HopDistance(v) ==
    CHOOSE k \in 0..Cardinality(Nodes) : v \in WithinHops(k) /\ (k = 0 \/ v \notin WithinHops(k - 1))

HasCycle == \E v \in Reachable : \E k \in 1..Cardinality(Nodes) :
                LET RECURSIVE After(_, _)
                    After(S, n) == IF n = 0 THEN S
                                   ELSE After({c \in Nodes : \E u \in S : c \in Range(children[u].items)}, n - 1)
                IN v \in After({v}, k)

(***************************************************************************)
(* C16.  On every finite graph, cycles and self-loops included, the        *)
(* graph-mode preorder, postorder, iterative-deepening and queue-based     *)
(* traversals terminate (next() reports done after finitely many calls)    *)
(* and yield no node more than once.                                       *)
(***************************************************************************)
C16_GraphTraversalsTerminate ==
    /\ []((\E k \in Kinds : GraphTraversal(k)) =>
              /\ NoDuplicates(AllYieldedNodes)
              /\ Len(AllYieldedNodes) <= Cardinality(Reachable))
    /\ <>((\E k \in Kinds : GraphTraversal(k)) => DoneCalls >= 1)

C16_Witness ==
    /\ GraphTraversal("postorder")
    /\ HasCycle
    /\ children[traversalRoot].items = <<0, 1>>
    /\ Cardinality(Reachable) = 3
    /\ DoneCalls = 1
    /\ Len(YieldedNodes) = 3

(***************************************************************************)
(* C17.  On every finite graph the graph-mode preorder, postorder and      *)
(* queue-based traversals yield every node reachable from the root, each   *)
(* exactly once, also when a node is reachable through several paths or    *)
(* lies on a cycle.                                                        *)
(***************************************************************************)
C17_GraphTraversalsYieldReachable ==
    (\E k \in {"preorder", "postorder", "queue"} : GraphTraversal(k)) =>
        /\ NoDuplicates(AllYieldedNodes)
        /\ Range(AllYieldedNodes) \subseteq Reachable
        /\ DoneCalls >= 1 => Range(YieldedNodes) = Reachable

C17_Witness ==
    /\ GraphTraversal("preorder")
    /\ children = DetourGraph
    /\ DoneCalls = 1
    /\ YieldedNodes = <<0, 1, 2, 3, 4>>

(***************************************************************************)
(* C18.  On every finite graph the graph-mode iterative-deepening          *)
(* traversal (GraphNode.BFS / BFSWithMetadata) yields every node reachable *)
(* from the root exactly once, in non-decreasing order of its shortest hop *)
(* distance from the root.                                                 *)
(***************************************************************************)
C18_GraphIterativeDeepeningYieldsReachable ==
    GraphTraversal("iterativeDeepening") =>
        /\ NoDuplicates(AllYieldedNodes)
        /\ \A i, j \in DOMAIN AllYieldedNodes :
               i < j => HopDistance(AllYieldedNodes[i]) <= HopDistance(AllYieldedNodes[j])
        /\ DoneCalls >= 1 => Range(YieldedNodes) = Reachable

\* a shortest-path traversal from a present root
DjikstraTraversal == kind = "dijkstra" /\ traversalRoot \notin Absent

(***************************************************************************)
(* C19.  On every finite graph with a present root and non-negative edge   *)
(* costs the Dijkstra traversal terminates: every next() call returns, and *)
(* once each reachable node has been yielded the following next() reports  *)
(* done.                                                                   *)
(***************************************************************************)
C19_DjikstraTerminates ==
    DjikstraTraversal =>
        /\ ~iter.running
        /\ Len(results) > Cardinality(Reachable) => results[Cardinality(Reachable) + 1].done

\* the sum of the cost function's values along a back-pointer chain
RECURSIVE PathCost(_)
PathCost(path) ==
    IF Len(path) <= 1 THEN 0
    ELSE iter.costFunction[<<path[2], path[1]>>] + PathCost(Tail(path))

(***************************************************************************)
(* C20.  With non-negative edge costs the Dijkstra traversal yields the    *)
(* root first, with total cost 0, and then nodes in non-decreasing order   *)
(* of the total cost of reaching them, a node's total cost being the sum   *)
(* of the cost function's values along its back-pointer chain.             *)
(***************************************************************************)
C20_DjikstraYieldsInCostOrder ==
    DjikstraTraversal =>
        /\ results # <<>> =>
               /\ ~results[1].done
               /\ results[1].path = <<traversalRoot>>
               /\ PathCost(results[1].path) = 0
        /\ \A i, j \in DOMAIN results :
               (i < j /\ ~results[i].done /\ ~results[j].done) =>
                   PathCost(results[i].path) <= PathCost(results[j].path)

\* the second adjacent node of the root is cheaper than the first, and the
\* way to the first through the second is cheaper than the direct edge
C20_Witness ==
    /\ DjikstraTraversal
    /\ children[0].items = <<1, 2>>
    /\ children[2].items = <<1>>
    /\ iter.costFunction[<<0, 1>>] = 1
    /\ iter.costFunction[<<0, 2>>] = 0
    /\ iter.costFunction[<<2, 1>>] = 0
    /\ Len(results) = 3
    /\ results[2].node = 2
    /\ results[3].path = <<1, 2, 0>>

\* what a fresh graph-mode queue-based traversal from the same root yields
GraphQueueOutput == NodesOf(QueueRun(QueueBreadthFirstNew(Nodes, TRUE)))

UnitCosts == \A e \in DOMAIN iter.costFunction : iter.costFunction[e] = 1

(***************************************************************************)
(* C21.  On every finite graph in which every edge costs 1 the Dijkstra    *)
(* traversal yields the nodes in exactly the order of the graph-mode       *)
(* queue-based breadth-first traversal from the same root.                 *)
(***************************************************************************)
C21_DjikstraUnitCostIsBreadthFirst ==
    (DjikstraTraversal /\ UnitCosts) =>
        /\ IsPrefix(AllYieldedNodes, GraphQueueOutput)
        /\ iter.running => AllYieldedNodes = GraphQueueOutput

\* what a shortest-path iterator yields in at most n next() calls that return
RECURSIVE DjikstraRun(_, _)
DjikstraRun(d, n) ==
    IF n = 0 THEN <<>>
    ELSE LET r == DjikstraNext(d)
         IN IF ~r.returns THEN <<>>
            ELSE <<Observe(r.res, <<>>)>> \o DjikstraRun(r.d, n - 1)

\* what Dijkstra yields with the cost function the A* traversal was given
DjikstraOutput ==
    DjikstraRun(DjikstraIteratorNew(traversalRoot, Nodes, iter.iterable.costFunction),
                MaxDijkstraCalls)

AStarWithZeroHeuristic ==
    /\ kind = "astar"
    /\ iter.iterable.heuristicFunction = ZeroHeuristic(DOMAIN iter.iterable.costFunction)

(***************************************************************************)
(* C22.  A* with a heuristic that always returns 0 yields exactly the      *)
(* sequence of nodes and back paths that Dijkstra yields with the same     *)
(* cost function.                                                          *)
(***************************************************************************)
C22_AStarZeroHeuristicIsDjikstra ==
    AStarWithZeroHeuristic =>
        /\ IsPrefix(results, DjikstraOutput)
        /\ iter.running => results = DjikstraOutput

C22_Witness ==
    /\ AStarWithZeroHeuristic
    /\ iter.running
    /\ Len(results) = 3
    /\ results[3].path = <<1, 2, 0>>
    /\ iter.iterable.costFunction[<<0, 1>>] = 1

\* the sum of the cost function's values, the heuristic left out, along a
\* back-pointer chain of an A* traversal
RECURSIVE AStarPathCost(_)
AStarPathCost(path) ==
    IF Len(path) <= 1 THEN 0
    ELSE iter.iterable.costFunction[<<path[2], path[1]>>] + AStarPathCost(Tail(path))

(***************************************************************************)
(* C23.  The A* traversal returns nodes in ascending order of the cost to  *)
(* get to them: with non-negative cost and heuristic functions the sum of  *)
(* the cost function's values along the back path of each yielded node     *)
(* never decreases over the yielded sequence.                              *)
(***************************************************************************)
C23_AStarYieldsInCostOrder ==
    kind = "astar" =>
        \A i, j \in DOMAIN results :
            (i < j /\ ~results[i].done /\ ~results[j].done) =>
                AStarPathCost(results[i].path) <= AStarPathCost(results[j].path)

\* the results received through reference h of an iterable
Received(h) == iter.received[h]

(***************************************************************************)
(* C24.  Two iterators obtained independently from the same iterable,      *)
(* driven with their next() calls interleaved in any order, each produce   *)
(* the sequence a single iterator driven alone produces: no stack, queue,  *)
(* visited set or depth counter is shared between them.                    *)
(***************************************************************************)
C24_IteratorsAreIndependent ==
    kind = "iterable" =>
        \A h \in DOMAIN iter.handles : IsPrefix(Received(h), results)

C24_Witness ==
    /\ kind = "iterable"
    /\ iter.iterable.check
    /\ iter.iterable.traversalType = "BreadthFirst"
    /\ iter.iterable.class = "DepthFirstIterable"
    /\ Len(iter.handles) = 2
    /\ Len(Received(1)) = 2
    /\ HasReportedDone(Received(2))
    /\ Len(Received(2)) = 4

AllZero(calls) == \A n \in DOMAIN calls : calls[n] = 0

(***************************************************************************)
(* C25.  Traversal is lazy: calling a traversal method and obtaining an    *)
(* iterator calls the expansion function (getChildren, getAdjacentNodes,   *)
(* getLeft, getRight) and the cost functions zero times; they are called   *)
(* only inside next().                                                     *)
(***************************************************************************)
C25_TraversalIsLazy ==
    /\ (kind \in Kinds /\ results = <<>>) => AllZero(Calls)
    /\ (kind = "inorder" /\ results = <<>>) =>
           AllZero(iter.leftCalls) /\ AllZero(iter.rightCalls)
    /\ (kind \in {"dijkstra", "astar"} /\ results = <<>> /\ ~iter.running) =>
           AllZero(iter.calls) /\ iter.costCalls = 0
    /\ kind = "iterable" =>
           \A h \in DOMAIN iter.handles :
               Received(h) = <<>> =>
                   AllZero(EngineCalls(iter.objects[iter.handles[h]].engine,
                                       iter.objects[iter.handles[h]].iterator))

\* a second iterator has just been obtained while the first is under way
C25_Witness ==
    /\ kind = "iterable"
    /\ Len(iter.handles) = 2
    /\ Len(Received(1)) = 2
    /\ Received(2) = <<>>
    /\ iter.iterable.class = "QueueBreadthFirstIterable"
    /\ ~AllZero(iter.objects[iter.handles[1]].iterator.calls)

UnsupportedTraversalType ==
    /\ kind = "iterable"
    /\ iter.iterable.class = "DepthFirstIterable"
    /\ iter.iterable.traversalType \notin {"DepthFirstPreorder", "DepthFirstPostorder", "BreadthFirst"}

(***************************************************************************)
(* C26.  Asking the depth-first iterable for an iterator with a traversal  *)
(* type it does not implement (DepthFirstInOrder) fails with an error      *)
(* instead of returning an empty or partial sequence, and no traversal     *)
(* state is created.                                                       *)
(***************************************************************************)
C26_UnsupportedTraversalTypeThrows ==
    /\ [](UnsupportedTraversalType =>
              iter.objects = <<>> /\ iter.handles = <<>> /\ results = <<>>)
    /\ [][UnsupportedTraversalType => iter'.threw]_vars

C26_Witness ==
    /\ UnsupportedTraversalType
    /\ iter.threw
    /\ Cardinality(Nodes) = 3

\* the element the last next() call returned
LastResult == results[Len(results)]

(***************************************************************************)
(* C27.  Mark on offer: in graph mode, whenever the cycle-suppression      *)
(* filter of the depth-first engine or of the queue-based engine admits a  *)
(* candidate adjacent node, the candidate is in the engine's visited set   *)
(* at the moment the filter hands it out, not only later when the node is  *)
(* expanded or dequeued.  For the depth-first engine the moment is the     *)
(* return of the preorder next() that pulled the candidate through the     *)
(* filter; for the queue-based engine it is the return of the pull at the  *)
(* start of next(), before next() itself marks the node.                   *)
(***************************************************************************)
C27_MarkOnOffer ==
    /\ (GraphTraversal("preorder") /\ results # <<>>) =>
           ((~LastResult.done /\ LastResult.node # traversalRoot) =>
               LastResult.node \in iter.visitedNodes)
    /\ GraphTraversal("queue") =>
           LET r == QueuePull(iter)
           IN (~r.done /\ Len(r.value) > 1) => Head(r.value) \in r.q.visitedNodes

\* the breadth-first listing of the present nodes below the nodes of one level
RECURSIVE LevelOrderListing(_)
LevelOrderListing(level) ==
    IF level = <<>> THEN <<>>
    ELSE level \o LevelOrderListing(Flatten([i \in DOMAIN level |-> PresentKids(level[i])]))

\* the listing of the present nodes of the tree a traversal of kind k is to
\* yield; it is the same for every way the leaves report having no children
CanonicalListing(k) ==
    CASE k = "preorder" -> PreorderListing(traversalRoot)
      [] k = "postorder" -> PostorderListing(traversalRoot)
      [] k \in {"iterativeDeepening", "queue"} -> LevelOrderListing(<<traversalRoot>>)

\* the elements received before done whose node is present
PresentElements == SelectSeq(BeforeDone, LAMBDA r : r.node \notin Absent)

(***************************************************************************)
(* C28.  The way a node reports having no children does not change a       *)
(* traversal: for preorder, postorder, iterative-deepening and queue-based *)
(* breadth-first traversal of a tree whose leaves return an empty list,    *)
(* null, undefined, a list holding one null or a list holding one          *)
(* undefined, the present nodes yielded are the listing that the parent    *)
(* relation of the present nodes alone determines, each with the depth and *)
(* the ancestors that relation gives it (the queue-based traversal lists   *)
(* the ancestors parent first), and the expansion function is never called *)
(* on an absent entry.                                                     *)
(***************************************************************************)
C28_LeafEncodingIsIrrelevant ==
    \A k \in Kinds :
        TreeTraversal(k) =>
            /\ IsPrefix(YieldedNodes, CanonicalListing(k))
            /\ DoneCalls >= 1 => YieldedNodes = CanonicalListing(k)
            /\ \A i \in DOMAIN PresentElements :
                   LET e == PresentElements[i]
                   IN IF k = "queue"
                      THEN e.seen = Reverse(PathTo(e.node))
                      ELSE e.seen = PathTo(e.node) /\ e.depth = DepthOf(e.node)
            /\ \A a \in Absent : Calls[a] = 0

C28_Witness ==
    /\ kind = "postorder"
    /\ IsReferenceTree
    /\ children[10] = ListOf(<<Null>>)
    /\ DoneCalls = 1
    /\ Cardinality({i \in DOMAIN BeforeDone : BeforeDone[i].node = Null}) = 4
    /\ YieldedNodes = <<3, 4, 1, 5, 10, 9, 8, 7, 6, 2, 0>>
    /\ Calls[Null] = 0

\* the smallest totalCost a non-empty set of costs holds
Smallest(costs) == CHOOSE c \in costs : \A other \in costs : c <= other

NoElements == [c \in 0..MaxHeapKey |-> 0]

HowMany(stored) ==
    LET RECURSIVE Sum(_)
        Sum(c) == IF c < 0 THEN 0 ELSE stored[c] + Sum(c - 1)
    IN Sum(MaxHeapKey)

\* what a priority queue holds after the calls of a log, as the number of
\* stored elements of each cost: a push adds its element, a pop removes one
\* element of the smallest cost if there is any
RECURSIVE StoredAfter(_)
StoredAfter(log) ==
    IF log = <<>> THEN NoElements
    ELSE LET before == StoredAfter(Front(log))
             call == Last(log)
         IN IF call.op = "push"
            THEN [before EXCEPT ![call.value.totalCost] = @ + 1]
            ELSE IF HowMany(before) = 0 THEN before
            ELSE [before EXCEPT ![Smallest({c \in DOMAIN before : before[c] > 0})] = @ - 1]

(***************************************************************************)
(* C29.  MinHeap after any sequence of push and pop calls: pop on a        *)
(* non-empty heap returns the smallest element currently stored and        *)
(* removes it, so that length always equals the number of pushes minus the *)
(* number of pops that returned an element, n pops after n pushes return   *)
(* the elements in ascending order and leave the heap empty; pop on an     *)
(* empty heap returns undefined.                                           *)
(***************************************************************************)
C29_HeapPopsSmallestAndRemovesIt ==
    kind = "heap" =>
        \A i \in DOMAIN results :
            LET before == StoredAfter(SubSeq(results, 1, i - 1))
                after == StoredAfter(SubSeq(results, 1, i))
                call == results[i]
            IN /\ call.length = HowMany(after)
               /\ call.op = "pop" =>
                      IF HowMany(before) = 0
                      THEN ~call.defined
                      ELSE /\ call.defined
                           /\ call.value.totalCost =
                                  Smallest({c \in DOMAIN before : before[c] > 0})

\* the items a queue holds, the oldest first: those of the nodes linked
\* from its start
RECURSIVE ItemsFrom(_, _)
ItemsFrom(nodes, node) ==
    IF node = Undefined THEN <<>>
    ELSE <<nodes[node].item>> \o ItemsFrom(nodes, nodes[node].next)

\* the items enqueued and not yet dequeued after the calls of a log, the
\* oldest first
RECURSIVE WaitingAfter(_)
WaitingAfter(log) ==
    IF log = <<>> THEN <<>>
    ELSE LET before == WaitingAfter(Front(log))
             call == Last(log)
         IN CASE call.op = "enqueue" -> Append(before, call.item)
              [] call.op = "dequeue" -> IF before = <<>> THEN before ELSE Tail(before)
              [] call.op = "peek" -> before
              [] call.op = "clear" -> <<>>

OldestOf(waiting) == IF waiting = <<>> THEN Undefined ELSE Head(waiting)

(***************************************************************************)
(* C30.  Queue is first-in first-out under any interleaving of enqueue and *)
(* dequeue: dequeue returns the oldest item not yet dequeued, peek returns *)
(* that item without changing the queue, dequeue on an empty queue returns *)
(* undefined and leaves the queue unchanged, and length always equals the  *)
(* number of items stored (never negative).                                *)
(***************************************************************************)
C30_QueueIsFirstInFirstOut ==
    kind = "fifo" =>
        /\ ItemsFrom(iter.nodes, iter.start) = WaitingAfter(results)
        /\ iter.length = Len(WaitingAfter(results))
        /\ \A i \in DOMAIN results :
               LET before == WaitingAfter(SubSeq(results, 1, i - 1))
                   after == WaitingAfter(SubSeq(results, 1, i))
                   call == results[i]
               IN /\ call.length = Len(after)
                  /\ call.length >= 0
                  /\ call.op \in {"dequeue", "peek"} => call.returned = OldestOf(before)
                  /\ (call.op = "peek" \/ (call.op = "dequeue" /\ before = <<>>)) =>
                         after = before

C30_Witness ==
    /\ kind = "fifo"
    /\ Len(results) = 5
    /\ results[1].op = "enqueue" /\ results[1].item = 0
    /\ results[2].op = "enqueue" /\ results[2].item = 1
    /\ results[3].op = "dequeue" /\ results[3].returned = 0
    /\ results[4].op = "dequeue" /\ results[4].returned = 1 /\ results[4].length = 0
    /\ results[5].op = "dequeue" /\ results[5].returned = Undefined /\ results[5].length = 0

\* the elements iterating the list yields, when the iteration ends
ListElements == [i \in DOMAIN GetNodes(iter) |-> iter.nodes[GetNodes(iter)[i]].item]

(***************************************************************************)
(* C31.  SinglyLinkedList after any sequence of addItemFirst,              *)
(* addNodeFirst, addItemLast, addNodeLast, addItemAfter, removeItem,       *)
(* removeNode, removeFirst, removeLast and clear: iterating the list ends  *)
(* and the length field equals the number of elements it yields; adding    *)
(* one item to an empty list gives length 1 with that item first, and      *)
(* clear gives length 0.                                                   *)
(***************************************************************************)
C31_ListLengthIsElementCount ==
    kind = "singlyLinkedList" =>
        /\ ~IsCyclic(iter)
        /\ iter.length = Len(ListElements)
        /\ (Len(results) = 1 /\ results[1].op \in {"addItemFirst", "addItemLast"}) =>
               (~results[1].threw /\ iter.length = 1 /\ ListElements = <<results[1].arg>>)
        /\ (results # <<>> /\ LastResult.op = "clear") => iter.length = 0

\* the values of the results a consumer receives before the first done
ValuesBeforeDone ==
    LET firstDone == IF \E i \in DOMAIN results : results[i].done
                     THEN CHOOSE i \in DOMAIN results :
                              results[i].done /\ \A j \in 1..(i - 1) : ~results[j].done
                     ELSE Len(results) + 1
    IN [i \in 1..(firstDone - 1) |-> results[i].value]

(***************************************************************************)
(* C32.  reverseOrder() of a finite iterable yields exactly the elements   *)
(* of the source in reverse order: the same number of elements, the last   *)
(* source element first and the first source element last, then done on    *)
(* every later next().                                                     *)
(***************************************************************************)
C32_ReverseOrderYieldsReversedSource ==
    kind = "reverse" =>
        /\ IsPrefix(ValuesBeforeDone, Reverse(iter.sourceIterable))
        /\ \A i \in DOMAIN results :
               /\ results[i].done => ValuesBeforeDone = Reverse(iter.sourceIterable)
               /\ results[i].done => \A j \in i..Len(results) : results[j].done
               /\ i > Len(iter.sourceIterable) => results[i].done

(***************************************************************************)
(* C33.  every(predicate) returns true exactly when every element of the   *)
(* iterable satisfies the predicate and false otherwise, for every finite  *)
(* iterable including the empty one (where no element fails the           *)
(* predicate).                                                             *)
(***************************************************************************)
C33_EveryIsUniversal ==
    (kind = "every" /\ results # <<>>) =>
        (results[1].returned <=>
            \A i \in DOMAIN iter.sourceIterable : iter.predicate[iter.sourceIterable[i]])

\* what a stack holds after the calls of a log, the oldest element first
RECURSIVE StackedAfter(_)
StackedAfter(log) ==
    IF log = <<>> THEN <<>>
    ELSE LET before == StackedAfter(Front(log))
             call == Last(log)
         IN CASE call.op = "push" -> Append(before, call.item)
              [] call.op = "pop" -> IF before = <<>> THEN before ELSE Front(before)
              [] call.op = "peek" -> before
              [] call.op = "clear" -> <<>>

NewestOf(stacked) == IF stacked = <<>> THEN Undefined ELSE Last(stacked)

(***************************************************************************)
(* C40.  Stack.length is the number of elements in the stack after any     *)
(* sequence of push, pop and clear: it is never negative, pop on an empty  *)
(* stack returns undefined and leaves length at 0, and pops return         *)
(* elements in last-in first-out order.                                    *)
(***************************************************************************)
C40_StackLengthIsElementCount ==
    kind = "stack" =>
        /\ iter.items = StackedAfter(results)
        /\ iter.length = Len(iter.items)
        /\ \A i \in DOMAIN results :
               LET before == StackedAfter(SubSeq(results, 1, i - 1))
                   after == StackedAfter(SubSeq(results, 1, i))
                   call == results[i]
               IN /\ call.length = Len(after)
                  /\ call.length >= 0
                  /\ call.op = "pop" => call.returned = NewestOf(before)

\* the costs of the walks of at most k edges from the root to node v
RECURSIVE WalkCosts(_, _)
WalkCosts(v, k) ==
    IF k = 0 THEN IF v = traversalRoot THEN {0} ELSE {}
    ELSE WalkCosts(v, k - 1)
         \cup UNION {{c + iter.costFunction[e] : c \in WalkCosts(e[1], k - 1)} :
                        e \in {x \in DOMAIN iter.costFunction : x[2] = v}}

\* the cost of a cheapest path from the root to v; with non-negative costs a
\* cheapest path visits no node twice
CheapestCost(v) == Smallest(WalkCosts(v, Cardinality(Nodes)))

\* a back-pointer chain that follows edges of the graph back to the root
IsPathFromRoot(path) ==
    /\ path # <<>>
    /\ Last(path) = traversalRoot
    /\ \A k \in 1..(Len(path) - 1) : <<path[k + 1], path[k]>> \in DOMAIN iter.costFunction

(***************************************************************************)
(* C34.  For every finite graph with non-negative edge costs, the          *)
(* back-pointer chain of each node yielded by Dijkstra is a minimum-cost   *)
(* path from the root to that node: the sum of the cost function's values  *)
(* along the chain is less than or equal to the cost of every other path   *)
(* from the root to the node, and the parent of each yielded element is    *)
(* the element whose expansion enqueued it, which was yielded before.      *)
(***************************************************************************)
C34_DjikstraChainIsCheapestPath ==
    DjikstraTraversal =>
        \A i \in DOMAIN results :
            ~results[i].done =>
                LET path == results[i].path
                IN /\ IsPathFromRoot(path)
                   /\ PathCost(path) = CheapestCost(Head(path))
                   /\ Len(path) > 1 =>
                          \E j \in 1..(i - 1) :
                              ~results[j].done /\ results[j].path = Tail(path)

\* the direct edge to node 1 costs more than the way through node 2
C34_Witness ==
    /\ DjikstraTraversal
    /\ children[0].items = <<1, 2>>
    /\ children[2].items = <<1>>
    /\ iter.costFunction[<<0, 1>>] = 1
    /\ iter.costFunction[<<0, 2>>] = 0
    /\ iter.costFunction[<<2, 1>>] = 0
    /\ \E i \in DOMAIN results :
           /\ ~results[i].done
           /\ results[i].path = <<1, 2, 0>>
           /\ CheapestCost(1) = 0

\* the nodes of all elements received so far
AllYielded == NodesOf(SelectSeq(results, LAMBDA r : ~r.done))

(***************************************************************************)
(* C35.  Dijkstra uses lazy deletion: a node may be in the priority queue  *)
(* several times through different parents, yet it is yielded at most once *)
(* (entries whose node is already visited are skipped when popped), and    *)
(* its adjacency is expanded exactly once, in the next() call that yields  *)
(* it: a node has been expanded once if it has been yielded and not at all *)
(* otherwise.                                                              *)
(***************************************************************************)
C35_DjikstraLazyDeletion ==
    DjikstraTraversal =>
        /\ NoDuplicates(AllYielded)
        /\ Range(AllYielded) = iter.visitedNodes
        /\ \A v \in Nodes : Calls[v] = IF v \in Range(AllYielded) THEN 1 ELSE 0

\* node 1 has been yielded through node 2 and expanded once, while the entry
\* that the root pushed for it is still in the heap
C35_Witness ==
    /\ DjikstraTraversal
    /\ \E i \in DOMAIN results : ~results[i].done /\ results[i].path = <<1, 2, 0>>
    /\ Calls[1] = 1
    /\ \E k \in DOMAIN iter.traversalHeap :
           iter.traversalHeap[k].graphNodeWithBackPath = <<1, 0>>

(***************************************************************************)
(* C36.  Lock-step invariant of the depth-first engine: whenever the       *)
(* preorder or the postorder iterator returns a node from next(), the node *)
(* stack is non-empty, the ancestors list has the length of the node stack *)
(* minus 1 and equals the node stack without its top, root first, the      *)
(* level stack has the same length as the node stack; and no stack length  *)
(* is negative in any reachable state.                                     *)
(***************************************************************************)
C36_DepthFirstStacksInLockStep ==
    kind \in {"preorder", "postorder"} =>
        /\ iter.traversalStack.length >= 0
        /\ iter.currentNodes.length >= 0
        /\ (results # <<>> /\ ~LastResult.done) =>
               /\ iter.currentNodes.length > 0
               /\ iter.currentNodes.length = Len(iter.currentNodes.items)
               /\ Len(Ancestors(iter)) = iter.currentNodes.length - 1
               /\ Ancestors(iter) = Front(iter.currentNodes.items)
               /\ iter.traversalStack.length = iter.currentNodes.length

\* the present nodes of the elements received before the last call
YieldedBeforeLastCall == NodesOf(SelectSeq(Front(results), LAMBDA r : ~r.done))

\* the nodes the expansion function has been called on
Expanded == {v \in Nodes : Calls[v] > 0}

(***************************************************************************)
(* C37.  In a preorder traversal the expansion function is never called on *)
(* a node before that node has been yielded: the children of node n are    *)
(* requested only in the next() call that directly follows the one that    *)
(* yielded n, so that the nodes expanded so far are the nodes yielded      *)
(* before the last call.  Therefore, when the caller changes the children  *)
(* of the node just yielded before the following next() (removing node 8   *)
(* while node 7 is current), the traversal goes on to yield exactly what   *)
(* the modified tree defines: at every moment the nodes yielded are the    *)
(* beginning of the preorder listing of the tree as it is then, and at     *)
(* done the whole of it.                                                   *)
(***************************************************************************)
C37_PreorderExpandsAfterYield ==
    /\ (TreeTraversal("preorder") /\ results # <<>> /\ DoneCalls <= 1) =>
           Expanded = Range(YieldedBeforeLastCall)
    /\ kind = "preorderEdited" =>
           /\ results # <<>> => Expanded = Range(YieldedBeforeLastCall)
           /\ IsPrefix(YieldedNodes, PreorderListing(traversalRoot))
           /\ DoneCalls >= 1 => YieldedNodes = PreorderListing(traversalRoot)

\* node 8 was removed from the reference tree while node 7 was current
C37_Witness ==
    /\ kind = "preorderEdited"
    /\ Cardinality(Nodes) = 11
    /\ children[7] = ListOf(<<>>)
    /\ \A v \in Nodes \ {7} : children[v] = TreeChildren(ReferenceParents, ListOf(<<>>))[v]
    /\ DoneCalls = 1
    /\ YieldedNodes = <<0, 1, 3, 4, 2, 5, 6, 7>>

(***************************************************************************)
(* C38.  Exhaustion is permanent: for the preorder, postorder,             *)
(* iterative-deepening, queue-based and in-order iterators over a finite   *)
(* tree, once next() has reported done every later next() call also        *)
(* reports done and never yields another node.                             *)
(***************************************************************************)
C38_ExhaustionIsPermanent ==
    (\E k \in Kinds \cup {"inorder"} : TreeTraversal(k)) =>
        \A i, j \in DOMAIN results : (i < j /\ results[i].done) => results[j].done

C38_Witness ==
    /\ kind = "preorder"
    /\ IsReferenceTree
    /\ Len(results) = 11 + ExtraCalls + 1
    /\ \A i \in 1..11 : ~results[i].done
    /\ \A i \in 12..Len(results) : results[i].done

(***************************************************************************)
(* C39.  Once the preorder iterator has reported done, a further next()    *)
(* call does not call the expansion function again and leaves the          *)
(* iterator's level stack, node stack and ancestors list unchanged         *)
(* (empty).                                                                *)
(***************************************************************************)
C39_PreorderIdleAfterDone ==
    (TreeTraversal("preorder") /\ DoneCalls >= 1) =>
        /\ \A v \in Nodes : Calls[v] = 1
        /\ iter.traversalStack.items = <<>>
        /\ iter.currentNodes.items = <<>>
        /\ Ancestors(iter) = <<>>

====
